---- MODULE Spec2Model ----
(***************************************************************************)
(* Image2Lcd converter: ImageProcessor (preprocessing), ImageConverter     *)
(* (format codecs, scan transform, convert pipeline) and DataFormatter     *)
(* (headers, palette, binary framing).                                     *)
(*                                                                         *)
(* Typed arrays are sequences of bytes; a 0-based index i of the source is *)
(* position i+1 here.  Optional string fields that are absent hold "unset",*)
(* optional numbers hold 0 and optional booleans hold FALSE (all falsy in  *)
(* the source's tests).  Floating point expressions over integer samples   *)
(* are computed as exact rationals.                                        *)
(***************************************************************************)
EXTENDS Integers, Sequences, FiniteSets, TLC

VARIABLES
    image,          \* ImageData passed to convert
    config,         \* ConversionConfig passed to convert / to the formatter
    pc,             \* position inside ImageConverter.convert
    currentConfig,  \* ImageConverter.currentConfig (<<>> while undefined)
    processed,      \* convert's processedImage
    steps,          \* operations convert has invoked so far, in order
    convertedData,  \* convert's convertedData
    finalData,      \* convert's finalData
    result,         \* <<ConversionResult>> once convert returned, else <<>>
    error,          \* message of the Error convert threw, "none" otherwise
    earlier,        \* the convert calls that ended earlier on this ImageConverter
    payload,        \* data argument of the DataFormatter call
    metadata,       \* <<ImageMetadata>> argument of the DataFormatter call, <<>> if omitted
    hasConfig,      \* FALSE when the DataFormatter call omits config
    fop,            \* DataFormatter method that has run ("none" before)
    fout,           \* what the DataFormatter method returned
    pixelBytes,     \* bytesPerPixel argument of applyByteOrder
    headerFile,     \* text generateHeaderFile returned (<<>> before)
    lineIndex,      \* loop variable i of formatAsHexText / formatAsCArray
    trail           \* ImageProcessor calls so far: the source image, then one
                    \* entry per call with the image it returned

vars == <<image, config, pc, currentConfig, processed, steps, convertedData,
          finalData, result, error, earlier, payload, metadata, hasConfig, fop, fout,
          pixelBytes, headerFile, lineIndex, trail>>

convVars == <<image, config, pc, currentConfig, processed, steps,
              convertedData, finalData, result, error, earlier>>

fmtVars == <<payload, metadata, hasConfig, fop, fout, pixelBytes, headerFile,
            lineIndex>>

procVars == <<trail>>

(***************************************************************************)
(* Bounds of the explored inputs                                           *)
(***************************************************************************)
MaxW == 3
MaxH == 2
MaxLimit == 2

(***************************************************************************)
(* Integer helpers for the source's bit operators                          *)
(***************************************************************************)
Shl(x, n) == x * (2 ^ n)

Shr(x, n) == x \div (2 ^ n)

RECURSIVE BitOr(_, _)
BitOr(a, b) ==
    IF a = 0 THEN b
    ELSE IF b = 0 THEN a
    ELSE (IF a % 2 = 1 \/ b % 2 = 1 THEN 1 ELSE 0) + 2 * BitOr(a \div 2, b \div 2)

RECURSIVE BitAnd(_, _)
BitAnd(a, b) ==
    IF a = 0 \/ b = 0 THEN 0
    ELSE (IF a % 2 = 1 /\ b % 2 = 1 THEN 1 ELSE 0) + 2 * BitAnd(a \div 2, b \div 2)

RECURSIVE OrAll(_)
OrAll(s) == IF s = <<>> THEN 0 ELSE BitOr(Head(s), OrAll(Tail(s)))

\* store into a Uint8Array element
ToUint8(x) == x % 256

\* Math.max(0, Math.min(255, x))
Clamp255(x) == IF x < 0 THEN 0 ELSE IF x > 255 THEN 255 ELSE x

\* Math.round(n / d) for n >= 0, d > 0
RoundDiv(n, d) == (2 * n + d) \div (2 * d)

\* store of the rational n / d (d > 0) into a Uint8ClampedArray element:
\* clamped to 0..255, rounded to nearest, ties to even
ClampedStore(n, d) ==
    IF n <= 0 THEN 0
    ELSE IF n >= 255 * d THEN 255
    ELSE LET q == n \div d
             r == n % d
         IN  IF 2 * r < d THEN q
             ELSE IF 2 * r > d THEN q + 1
             ELSE IF q % 2 = 0 THEN q ELSE q + 1

\* data[idx] of a typed array
At(data, idx) == data[idx + 1]

MaxOf(S) == CHOOSE m \in S : \A n \in S : n <= m

(***************************************************************************)
(* Input images.  A pixel is four samples R, G, B, A.                      *)
(***************************************************************************)
Palette ==
    << <<0, 0, 0, 255>>,
       <<255, 255, 255, 255>>,
       <<255, 0, 0, 255>>,
       <<128, 128, 127, 255>>,
       <<128, 128, 128, 200>>,
       <<8, 4, 8, 0>>,
       <<200, 100, 50, 128>> >>

\* image whose pixel i is colour (c - 1 + i * stride) mod Len(Palette) of the
\* palette: stride 0 is a solid image, stride 1 runs through the palette
PatternImage(w, h, c, stride) ==
    [ width  |-> w,
      height |-> h,
      data   |-> [k \in 1..(w * h * 4) |->
                    Palette[((c - 1 + ((k - 1) \div 4) * stride) % Len(Palette)) + 1]
                           [((k - 1) % 4) + 1]] ]

Images ==
    { PatternImage(w, h, c, stride) :
        w \in 1..MaxW, h \in 1..MaxH, c \in 1..Len(Palette), stride \in {0, 1} }

WhiteImage64 == PatternImage(64, 64, 2, 0)

(***************************************************************************)
(* ImageProcessor                                                          *)
(***************************************************************************)
\* A loop that copies source pixel s (0 <= s < n, visited in increasing s) to
\* destination pixel dst(s) of a zero-filled array of newLen samples: the
\* last write to a pixel wins, writes outside the array are dropped.
ScatterPixels(data, n, newLen, dst(_)) ==
    [k \in 1..newLen |->
        LET d == (k - 1) \div 4
            S == {s \in 0..(n - 1) : dst(s) = d}
        IN  IF S = {} THEN 0 ELSE At(data, MaxOf(S) * 4 + ((k - 1) % 4))]

\* newWidth / newHeight of resize when the image does not fit
ResizeWidth(width, height, maxWidth, maxHeight) ==
    IF width * maxHeight > height * maxWidth
    THEN maxWidth
    ELSE RoundDiv(maxHeight * width, height)

\* newHeight with Math.floor in place of Math.round
ResizeHeightFloor(width, height, maxWidth, maxHeight) ==
    IF width * maxHeight > height * maxWidth
    THEN (maxWidth * height) \div width
    ELSE maxHeight

ResizeHeight(width, height, maxWidth, maxHeight) ==
    IF width * maxHeight > height * maxWidth
    THEN RoundDiv(maxWidth * height, width)
    ELSE maxHeight

resize(img, maxWidth, maxHeight) ==
    IF img.width <= maxWidth /\ img.height <= maxHeight
    THEN img
    ELSE LET newWidth  == ResizeWidth(img.width, img.height, maxWidth, maxHeight)
             newHeight == ResizeHeight(img.width, img.height, maxWidth, maxHeight)
         IN  [ width  |-> newWidth,
               height |-> newHeight,
               data   |-> [k \in 1..(newWidth * newHeight * 4) |->
                             LET p    == (k - 1) \div 4
                                 x    == p % newWidth
                                 y    == p \div newWidth
                                 srcX == (x * img.width) \div newWidth
                                 srcY == (y * img.height) \div newHeight
                             IN  At(img.data, (srcY * img.width + srcX) * 4 + ((k - 1) % 4))] ]

\* adjustBrightness storing the sum in a Uint8Array, which wraps modulo 256
adjustBrightnessWrap(img, value) ==
    [img EXCEPT !.data =
        [k \in 1..Len(img.data) |->
            IF (k - 1) % 4 = 3 THEN img.data[k]
            ELSE ToUint8(img.data[k] + value)]]

adjustBrightness(img, value) ==
    [img EXCEPT !.data =
        [k \in 1..Len(img.data) |->
            IF (k - 1) % 4 = 3 THEN img.data[k]
            ELSE Clamp255(img.data[k] + value)]]

\* factor = 259 * (value + 255) / (255 * (259 - value))
adjustContrast(img, value) ==
    LET num == 259 * (value + 255)
        den == 255 * (259 - value)
    IN  [img EXCEPT !.data =
            [k \in 1..Len(img.data) |->
                IF (k - 1) % 4 = 3 THEN img.data[k]
                ELSE ClampedStore(num * (img.data[k] - 128) + 128 * den, den)]]

\* rotate that computes dstIdx with the source width (right for square images)
RotateDstSourceWidth(width, height, degrees, s) ==
    LET x == s % width
        y == s \div width
        dstX == CASE degrees = 90  -> height - 1 - y
                  [] degrees = 180 -> width - 1 - x
                  [] degrees = 270 -> y
                  [] OTHER         -> x
        dstY == CASE degrees = 90  -> x
                  [] degrees = 180 -> height - 1 - y
                  [] degrees = 270 -> width - 1 - x
                  [] OTHER         -> y
    IN  dstY * width + dstX

\* destination pixel index of source pixel s under rotate
RotateDst(width, height, degrees, s) ==
    LET x == s % width
        y == s \div width
        newWidth == IF degrees = 90 \/ degrees = 270 THEN height ELSE width
        dstX == CASE degrees = 90  -> height - 1 - y
                  [] degrees = 180 -> width - 1 - x
                  [] degrees = 270 -> y
                  [] OTHER         -> x
        dstY == CASE degrees = 90  -> x
                  [] degrees = 180 -> height - 1 - y
                  [] degrees = 270 -> width - 1 - x
                  [] OTHER         -> y
    IN  dstY * newWidth + dstX

rotate(img, degrees) ==
    IF degrees = 0 THEN img
    ELSE LET newWidth  == IF degrees = 90 \/ degrees = 270 THEN img.height ELSE img.width
             newHeight == IF degrees = 90 \/ degrees = 270 THEN img.width ELSE img.height
         IN  [ width  |-> newWidth,
               height |-> newHeight,
               data   |-> ScatterPixels(img.data, img.width * img.height,
                                        newWidth * newHeight * 4,
                                        LAMBDA s : RotateDst(img.width, img.height, degrees, s)) ]

\* invert that also inverts the alpha sample
invertWithAlpha(img) ==
    [img EXCEPT !.data = [k \in 1..Len(img.data) |-> 255 - img.data[k]]]

invert(img) ==
    [img EXCEPT !.data =
        [k \in 1..Len(img.data) |->
            IF (k - 1) % 4 = 3 THEN img.data[k] ELSE 255 - img.data[k]]]

\* mirror with dstX = width - x
MirrorDstOffByOne(width, height, mode, s) ==
    LET x == s % width
        y == s \div width
        dstX == IF mode = "horizontal" \/ mode = "both" THEN width - x ELSE x
        dstY == IF mode = "vertical" \/ mode = "both" THEN height - 1 - y ELSE y
    IN  dstY * width + dstX

\* destination pixel index of source pixel s under mirror
MirrorDst(width, height, mode, s) ==
    LET x == s % width
        y == s \div width
        dstX == IF mode = "horizontal" \/ mode = "both" THEN width - 1 - x ELSE x
        dstY == IF mode = "vertical" \/ mode = "both" THEN height - 1 - y ELSE y
    IN  dstY * width + dstX

mirror(img, mode) ==
    IF mode = "none" THEN img
    ELSE [img EXCEPT !.data =
            ScatterPixels(img.data, img.width * img.height, Len(img.data),
                          LAMBDA s : MirrorDst(img.width, img.height, mode, s))]

\* addError with error = num / den
addError(data, idx, num, den) ==
    [data EXCEPT ![idx + 1] = ClampedStore(@ * den + num, den),
                 ![idx + 2] = ClampedStore(@ * den + num, den),
                 ![idx + 3] = ClampedStore(@ * den + num, den)]

\* an iteration that hands the 3/16 share to the pixel on the left, in the row
\* being scanned
FloydSteinbergPixelLeft(data, width, height, x, y) ==
    LET idx      == (y * width + x) * 4
        sum      == At(data, idx) + At(data, idx + 1) + At(data, idx + 2)
        newPixel == IF sum < 3 * 128 THEN 0 ELSE 255
        e3       == sum - 3 * newPixel
        d0 == [data EXCEPT ![idx + 1] = newPixel, ![idx + 2] = newPixel, ![idx + 3] = newPixel]
        d1 == IF x + 1 < width
              THEN addError(d0, (y * width + (x + 1)) * 4, e3 * 7, 48)
              ELSE d0
        d2 == IF y + 1 < height /\ x > 0
              THEN addError(d1, (y * width + (x - 1)) * 4, e3 * 3, 48)
              ELSE d1
        d3 == IF y + 1 < height
              THEN addError(d2, ((y + 1) * width + x) * 4, e3 * 5, 48)
              ELSE d2
        d4 == IF y + 1 < height /\ x + 1 < width
              THEN addError(d3, ((y + 1) * width + (x + 1)) * 4, e3 * 1, 48)
              ELSE d3
    IN  d4

\* one iteration of the Floyd-Steinberg loops, at pixel (x, y);
\* error = e3 / 3 with e3 = (R + G + B) - 3 * newPixel
FloydSteinbergPixel(data, width, height, x, y) ==
    LET idx      == (y * width + x) * 4
        sum      == At(data, idx) + At(data, idx + 1) + At(data, idx + 2)
        newPixel == IF sum < 3 * 128 THEN 0 ELSE 255
        e3       == sum - 3 * newPixel
        d0 == [data EXCEPT ![idx + 1] = newPixel, ![idx + 2] = newPixel, ![idx + 3] = newPixel]
        d1 == IF x + 1 < width
              THEN addError(d0, (y * width + (x + 1)) * 4, e3 * 7, 48)
              ELSE d0
        d2 == IF y + 1 < height /\ x > 0
              THEN addError(d1, ((y + 1) * width + (x - 1)) * 4, e3 * 3, 48)
              ELSE d1
        d3 == IF y + 1 < height
              THEN addError(d2, ((y + 1) * width + x) * 4, e3 * 5, 48)
              ELSE d2
        d4 == IF y + 1 < height /\ x + 1 < width
              THEN addError(d3, ((y + 1) * width + (x + 1)) * 4, e3 * 1, 48)
              ELSE d3
    IN  d4

RECURSIVE FloydSteinbergLoop(_, _, _, _)
FloydSteinbergLoop(data, width, height, i) ==
    IF i >= width * height THEN data
    ELSE FloydSteinbergLoop(
            FloydSteinbergPixel(data, width, height, i % width, i \div width),
            width, height, i + 1)

floydSteinbergDithering(img) ==
    [img EXCEPT !.data = FloydSteinbergLoop(img.data, img.width, img.height, 0)]

(***************************************************************************)
(* ImageConverter: format codecs                                           *)
(***************************************************************************)
\* R + G + B of pixel i; the source's grayscale is this sum divided by 3
RgbSum(data, i) == At(data, i * 4) + At(data, i * 4 + 1) + At(data, i * 4 + 2)

\* option || default
OrDefault(option, default) == IF option = "unset" THEN default ELSE option

MonoByteCount(totalPixels) == (totalPixels + 7) \div 8

\* bit = grayscale >= 128 ? 1 : 0
MonoBit(data, i) == IF RgbSum(data, i) >= 3 * 128 THEN 1 ELSE 0

\* LSB first within the byte
MonoBitIdxLsbFirst(i) == i % 8

MonoBitIdx(i) == 7 - (i % 8)

convertToMono(img) ==
    LET totalPixels == img.width * img.height
    IN  [k \in 1..MonoByteCount(totalPixels) |->
            ToUint8(OrAll([j \in 1..8 |->
                LET i == (k - 1) * 8 + (j - 1)
                IN  IF i < totalPixels
                    THEN Shl(MonoBit(img.data, i), MonoBitIdx(i))
                    ELSE 0]))]

\* byteCount rounded down instead of up
Gray4ByteCountFloor(totalPixels) == totalPixels \div 4

Gray4ByteCount(totalPixels) == (totalPixels + 3) \div 4

\* gray4 = Math.floor(grayscale / 64)
Gray4Level(data, i) == RgbSum(data, i) \div (3 * 64)

Gray4BitShift(i) == (3 - (i % 4)) * 2

convertToGray4(img) ==
    LET totalPixels == img.width * img.height
    IN  [k \in 1..Gray4ByteCount(totalPixels) |->
            ToUint8(OrAll([j \in 1..4 |->
                LET i == (k - 1) * 4 + (j - 1)
                IN  IF i < totalPixels
                    THEN Shl(BitAnd(Gray4Level(img.data, i), 3), Gray4BitShift(i))
                    ELSE 0]))]

Gray16ByteCount(totalPixels) == (totalPixels + 1) \div 2

\* gray16 = Math.floor(grayscale / 16)
Gray16Level(data, i) == RgbSum(data, i) \div (3 * 16)

Gray16BitShift(i) == (1 - (i % 2)) * 4

convertToGray16(img) ==
    LET totalPixels == img.width * img.height
    IN  [k \in 1..Gray16ByteCount(totalPixels) |->
            ToUint8(OrAll([j \in 1..2 |->
                LET i == (k - 1) * 2 + (j - 1)
                IN  IF i < totalPixels
                    THEN Shl(BitAnd(Gray16Level(img.data, i), 15), Gray16BitShift(i))
                    ELSE 0]))]

convertToColor256(img) ==
    [k \in 1..(img.width * img.height) |->
        LET pixelIdx == (k - 1) * 4
            r == Shr(At(img.data, pixelIdx), 5)
            g == Shr(At(img.data, pixelIdx + 1), 5)
            b == Shr(At(img.data, pixelIdx + 2), 6)
        IN  ToUint8(BitOr(BitOr(Shl(r, 5), Shl(g, 2)), b))]

\* (r << 8) | (g << 4) | b of pixel i, 4 bits per component
Color4096Value(data, i) ==
    BitOr(BitOr(Shl(Shr(At(data, i * 4), 4), 8),
                Shl(Shr(At(data, i * 4 + 1), 4), 4)),
          Shr(At(data, i * 4 + 2), 4))

\* the 12bits-3bytes branch with result[byteIdx + 1] |= r2 left out
Color4096PackedByteNoOr(data, total, k) ==
    LET i   == 2 * (k \div 3)
        r1  == Shr(At(data, i * 4), 4)
        g1  == Shr(At(data, i * 4 + 1), 4)
        b1  == Shr(At(data, i * 4 + 2), 4)
        two == i + 1 < total
        g2  == IF two THEN Shr(At(data, (i + 1) * 4 + 1), 4) ELSE 0
        b2  == IF two THEN Shr(At(data, (i + 1) * 4 + 2), 4) ELSE 0
    IN  CASE k % 3 = 0 -> BitOr(Shl(r1, 4), g1)
          [] k % 3 = 1 -> Shl(b1, 4)
          [] OTHER     -> IF two THEN BitOr(Shl(g2, 4), b2) ELSE 0

\* the 12bits-3bytes branch: byte k (0-based) of the result
Color4096PackedByte(data, total, k) ==
    LET i   == 2 * (k \div 3)
        r1  == Shr(At(data, i * 4), 4)
        g1  == Shr(At(data, i * 4 + 1), 4)
        b1  == Shr(At(data, i * 4 + 2), 4)
        two == i + 1 < total
        r2  == IF two THEN Shr(At(data, (i + 1) * 4), 4) ELSE 0
        g2  == IF two THEN Shr(At(data, (i + 1) * 4 + 1), 4) ELSE 0
        b2  == IF two THEN Shr(At(data, (i + 1) * 4 + 2), 4) ELSE 0
    IN  CASE k % 3 = 0 -> BitOr(Shl(r1, 4), g1)
          [] k % 3 = 1 -> IF two THEN BitOr(Shl(b1, 4), r2) ELSE Shl(b1, 4)
          [] OTHER     -> IF two THEN BitOr(Shl(g2, 4), b2) ELSE 0

\* the indices of result the 12bits-3bytes loop assigns for total pixels
Color4096WriteIndices(total) ==
    UNION { LET byteIdx == (i * 3) \div 2
            IN  {byteIdx, byteIdx + 1}
                \cup (IF i + 1 < total THEN {byteIdx + 1, byteIdx + 2} ELSE {}) :
            i \in { j \in 0..(total - 1) : j % 2 = 0 } }

convertToColor4096(img, cfg) ==
    LET format == OrDefault(cfg.color4096Format, "16bits-word")
        total  == img.width * img.height
    IN  IF format = "12bits-3bytes"
        THEN [k \in 1..((total * 3 + 1) \div 2) |->
                ToUint8(Color4096PackedByte(img.data, total, k - 1))]
        ELSE [k \in 1..(total * 2) |->
                LET color == Color4096Value(img.data, (k - 1) \div 2)
                IN  IF (k - 1) % 2 = 0
                    THEN BitAnd(Shr(color, 8), 255)
                    ELSE BitAnd(color, 255)]

\* RGB565 with the green component cut to 5 bits
Rgb565WordGreen5(R, G, B) ==
    BitOr(BitOr(Shl(Shr(R, 3), 11), Shl(Shr(G, 3), 5)), Shr(B, 3))

\* color = (r << 11) | (g << 5) | b with r = R >> 3, g = G >> 2, b = B >> 3
Rgb565Word(R, G, B) ==
    BitOr(BitOr(Shl(Shr(R, 3), 11), Shl(Shr(G, 2), 5)), Shr(B, 3))

\* color = (r << 10) | (g << 5) | b with r = R >> 3, g = G >> 3, b = B >> 3
Rgb555Word(R, G, B) ==
    BitOr(BitOr(Shl(Shr(R, 3), 10), Shl(Shr(G, 3), 5)), Shr(B, 3))

convertToColor16bit(img, cfg) ==
    LET format == OrDefault(cfg.color16bitFormat, "rgb565")
    IN  [k \in 1..(img.width * img.height * 2) |->
            LET pixelIdx == ((k - 1) \div 2) * 4
                R == At(img.data, pixelIdx)
                G == At(img.data, pixelIdx + 1)
                B == At(img.data, pixelIdx + 2)
                color == IF format = "rgb565"
                         THEN Rgb565Word(R, G, B)
                         ELSE Rgb555Word(R, G, B)
            IN  IF (k - 1) % 2 = 0
                THEN BitAnd(Shr(color, 8), 255)
                ELSE BitAnd(color, 255)]

convertToColor18bit(img, cfg) ==
    LET format == OrDefault(cfg.color18bitFormat, "6bits-low-byte")
    IN  [k \in 1..(img.width * img.height * 3) |->
            LET c == Shr(At(img.data, ((k - 1) \div 3) * 4 + ((k - 1) % 3)), 2)
            IN  IF format = "6bits-low-byte" THEN c ELSE ToUint8(Shl(c, 2))]

\* the switch on rgbOrder with the bodies of its GBR and BRG cases exchanged
RgbOrderSlotExchanged(rgbOrder, k) ==
    CASE rgbOrder = "RBG" -> <<0, 2, 1>>[k + 1]
      [] rgbOrder = "GRB" -> <<1, 0, 2>>[k + 1]
      [] rgbOrder = "GBR" -> <<2, 0, 1>>[k + 1]
      [] rgbOrder = "BRG" -> <<1, 2, 0>>[k + 1]
      [] rgbOrder = "BGR" -> <<2, 1, 0>>[k + 1]
      [] OTHER            -> <<0, 1, 2>>[k + 1]

\* 0-based sample offset (R = 0, G = 1, B = 2) written at output slot k of a
\* pixel by the switch on rgbOrder; an unknown order falls to the default case
RgbOrderSlot(rgbOrder, k) ==
    CASE rgbOrder = "RBG" -> <<0, 2, 1>>[k + 1]
      [] rgbOrder = "GRB" -> <<1, 0, 2>>[k + 1]
      [] rgbOrder = "GBR" -> <<1, 2, 0>>[k + 1]
      [] rgbOrder = "BRG" -> <<2, 0, 1>>[k + 1]
      [] rgbOrder = "BGR" -> <<2, 1, 0>>[k + 1]
      [] OTHER            -> <<0, 1, 2>>[k + 1]

convertToColor24bit(img, cfg) ==
    LET rgbOrder == OrDefault(cfg.rgbOrder, "RGB")
    IN  [k \in 1..(img.width * img.height * 3) |->
            At(img.data, ((k - 1) \div 3) * 4 + RgbOrderSlot(rgbOrder, (k - 1) % 3))]

convertToColor32bit(img, cfg) ==
    LET rgbOrder == OrDefault(cfg.rgbOrder, "RGB")
    IN  [k \in 1..(img.width * img.height * 4) |->
            IF (k - 1) % 4 = 3
            THEN At(img.data, k - 1)
            ELSE At(img.data, ((k - 1) \div 4) * 4 + RgbOrderSlot(rgbOrder, (k - 1) % 4))]

\* Math.round(0.299 R + 0.587 G + 0.114 B)
convertToGrayscale(img) ==
    [k \in 1..(img.width * img.height) |->
        LET pixelIdx == (k - 1) * 4
        IN  ToUint8(RoundDiv(299 * At(img.data, pixelIdx)
                             + 587 * At(img.data, pixelIdx + 1)
                             + 114 * At(img.data, pixelIdx + 2), 1000))]

\* type ColorFormat
ColorFormatType ==
    {"mono", "gray4", "gray16", "color256", "color4096", "color16bit",
     "color18bit", "color24bit", "color32bit", "rgb565", "rgb888", "grayscale"}

\* the case labels of convertToColorFormat's switch
SupportedFormats ==
    {"mono", "gray4", "gray16", "color256", "color4096", "color16bit", "rgb565",
     "color18bit", "color24bit", "rgb888", "color32bit", "grayscale"}

\* the codec each case label returns; cfg is getCurrentConfig()
FormatCodec(img, format, cfg) ==
    CASE format = "mono"       -> convertToMono(img)
      [] format = "gray4"      -> convertToGray4(img)
      [] format = "gray16"     -> convertToGray16(img)
      [] format = "color256"   -> convertToColor256(img)
      [] format = "color4096"  -> convertToColor4096(img, cfg)
      [] format \in {"color16bit", "rgb565"} -> convertToColor16bit(img, cfg)
      [] format = "color18bit" -> convertToColor18bit(img, cfg)
      [] format \in {"color24bit", "rgb888"} -> convertToColor24bit(img, cfg)
      [] format = "color32bit" -> convertToColor32bit(img, cfg)
      [] format = "grayscale"  -> convertToGrayscale(img)

\* convertToColorFormat with a default case that falls back to mono
convertToColorFormatFallback(img, format, cfg) ==
    IF format \notin SupportedFormats
    THEN [thrown |-> FALSE, data |-> convertToMono(img)]
    ELSE [thrown |-> FALSE, data |-> FormatCodec(img, format, cfg)]

\* convertToColorFormat: the bytes, or thrown = TRUE from the default case
convertToColorFormat(img, format, cfg) ==
    IF format \notin SupportedFormats
    THEN [thrown |-> TRUE, data |-> <<>>]
    ELSE [thrown |-> FALSE, data |-> FormatCodec(img, format, cfg)]

(***************************************************************************)
(* ImageConverter: scan transform                                          *)
(***************************************************************************)
\* vertical scan that strides the columns by the width instead of the height
ScanDstWidthStride(width, height, mode, s) ==
    LET x == s % width
        y == s \div width
    IN  CASE mode = "vertical" -> x * width + y
          [] mode = "horizontal-reverse-byte-vertical" -> (height - 1 - y) * width + x
          [] OTHER -> y * width + x

\* destination pixel index of source pixel s = y * width + x
ScanDst(width, height, mode, s) ==
    LET x == s % width
        y == s \div width
    IN  CASE mode = "vertical" -> x * height + y
          [] mode = "horizontal-reverse-byte-vertical" -> (height - 1 - y) * width + x
          [] OTHER -> y * width + x

\* position of source pixel s in the order the loops visit the pixels
ScanVisit(width, height, mode, s) ==
    IF mode = "horizontal-reverse-byte-vertical"
    THEN s
    ELSE (s % width) * height + (s \div width)

\* result array sized by the pixel count instead of the byte count
ScanResultLengthPixels(data, width, height, bytesPerPixel) == width * height

\* length of applyScanModeBytePerPixel's result array
ScanResultLength(data, width, height, bytesPerPixel) == Len(data)

ScanModesReordered ==
    {"vertical", "horizontal-reverse-byte-vertical", "data-vertical-byte-horizontal"}

applyScanModeBytePerPixel(data, width, height, mode, bytesPerPixel) ==
    IF mode \notin ScanModesReordered
    THEN data
    ELSE [k \in 1..ScanResultLength(data, width, height, bytesPerPixel) |->
            LET d == (k - 1) \div bytesPerPixel
                b == (k - 1) % bytesPerPixel
                S == {s \in 0..(width * height - 1) : ScanDst(width, height, mode, s) = d}
                last == CHOOSE s \in S : \A t \in S :
                            ScanVisit(width, height, mode, t) <= ScanVisit(width, height, mode, s)
            IN  IF S = {} \/ last * bytesPerPixel + b >= Len(data)
                THEN 0
                ELSE At(data, last * bytesPerPixel + b)]

applyScanModeBitPacked(data, width, height, mode, bitsPerPixel) == data

\* bytesPerPixel chosen by applyScanMode's switch, 0 where it returns data itself
ScanBytesPerPixel(format, cfg) ==
    CASE format \in {"grayscale", "color256"}            -> 1
      [] format \in {"color16bit", "rgb565"}             -> 2
      [] format \in {"color18bit", "color24bit", "rgb888"} -> 3
      [] format = "color32bit"                           -> 4
      [] format = "color4096" ->
            IF cfg.color4096Format = "12bits-3bytes" THEN 0 ELSE 2
      [] OTHER -> 0

applyScanMode(data, width, height, mode, cfg) ==
    IF mode = "horizontal"
    THEN data
    ELSE LET format == OrDefault(cfg.colorFormat, "mono")
         IN  CASE format = "mono"   -> applyScanModeBitPacked(data, width, height, mode, 1)
               [] format = "gray4"  -> applyScanModeBitPacked(data, width, height, mode, 2)
               [] format = "gray16" -> applyScanModeBitPacked(data, width, height, mode, 4)
               [] OTHER ->
                    IF ScanBytesPerPixel(format, cfg) = 0
                    THEN data
                    ELSE applyScanModeBytePerPixel(data, width, height, mode,
                                                   ScanBytesPerPixel(format, cfg))

(***************************************************************************)
(* ConversionConfig                                                        *)
(***************************************************************************)
BaseConfig ==
    [ scanMode         |-> "horizontal",
      colorFormat      |-> "mono",
      maxWidth         |-> 0,
      maxHeight        |-> 0,
      invert           |-> FALSE,
      byteOrder        |-> "msb",
      includeHeader    |-> FALSE,
      identifierName   |-> "image_data",
      bytesPerLine     |-> 16,
      dithering        |-> FALSE,
      brightness       |-> 0,
      contrast         |-> 0,
      rotation         |-> 0,
      mirror           |-> "unset",
      bitOrderInByte   |-> "unset",
      byteOrderInWord  |-> "unset",
      forwardScan      |-> FALSE,
      reverseScan      |-> FALSE,
      paletteType      |-> "unset",
      includePalette   |-> FALSE,
      customPalette    |-> <<>>,
      color4096Format  |-> "unset",
      color16bitFormat |-> "unset",
      color18bitFormat |-> "unset",
      rgbOrder         |-> "unset" ]

\* what the optional chaining config?.field reads while currentConfig is undefined
UndefinedConfig ==
    [ BaseConfig EXCEPT !.scanMode = "unset", !.colorFormat = "unset" ]

\* getCurrentConfig(): cc is the currentConfig field, <<>> while undefined
getCurrentConfig(cc) == IF cc = <<>> THEN UndefinedConfig ELSE cc[1]

ScanModes ==
    {"horizontal", "vertical", "horizontal-reverse-byte-vertical",
     "data-vertical-byte-horizontal", "horizontal-reverse"}

RgbOrders == {"RGB", "RBG", "GRB", "GBR", "BRG", "BGR"}

\* configs that exercise the codecs and the scan transform, no preprocessing
CodecConfigs ==
    { [BaseConfig EXCEPT !.colorFormat = f, !.scanMode = m] :
        f \in {"mono", "gray4", "gray16", "grayscale", "color256", "color4096",
               "color16bit", "color18bit", "color24bit", "bogus"},
        m \in ScanModes }
    \cup
    { [BaseConfig EXCEPT !.colorFormat = "color4096", !.scanMode = m,
                         !.color4096Format = o] :
        m \in ScanModes, o \in {"12bits-3bytes", "16bits-word"} }
    \cup
    { [BaseConfig EXCEPT !.colorFormat = f, !.scanMode = m, !.color16bitFormat = o] :
        f \in {"color16bit", "rgb565"}, m \in ScanModes,
        o \in {"unset", "rgb565", "rgb555"} }
    \cup
    { [BaseConfig EXCEPT !.colorFormat = "color18bit", !.scanMode = m,
                         !.color18bitFormat = o] :
        m \in ScanModes, o \in {"6bits-low-byte", "6bits-high-byte"} }
    \cup
    { [BaseConfig EXCEPT !.colorFormat = f, !.scanMode = m, !.rgbOrder = o] :
        f \in {"color24bit", "rgb888", "color32bit"}, m \in ScanModes,
        o \in RgbOrders \cup {"unset"} }
    \cup
    { [BaseConfig EXCEPT !.colorFormat = f, !.scanMode = m,
                         !.maxWidth = 1000, !.maxHeight = 1000,
                         !.color4096Format = "12bits-3bytes",
                         !.color16bitFormat = "rgb555",
                         !.color18bitFormat = "6bits-high-byte",
                         !.rgbOrder = "BGR"] :
        f \in SupportedFormats, m \in {"horizontal", "vertical"} }

\* configs that switch each preprocessing step on or off
ToggleConfigs ==
    { [BaseConfig EXCEPT !.maxWidth = IF rs THEN MaxLimit ELSE 0,
                         !.maxHeight = IF rs THEN MaxLimit ELSE 0,
                         !.rotation = IF ro THEN 90 ELSE 0,
                         !.mirror = IF mi THEN "horizontal" ELSE "none",
                         !.brightness = IF br THEN 40 ELSE 0,
                         !.contrast = IF co THEN 50 ELSE 0,
                         !.invert = iv,
                         !.dithering = di] :
        rs \in BOOLEAN, ro \in BOOLEAN, mi \in BOOLEAN, br \in BOOLEAN,
        co \in BOOLEAN, iv \in BOOLEAN, di \in BOOLEAN }

\* configs that vary the geometric steps
GeometryConfigs ==
    { [BaseConfig EXCEPT !.colorFormat = "grayscale",
                         !.maxWidth = mw, !.maxHeight = mh,
                         !.rotation = ro, !.mirror = mi] :
        mw \in 0..MaxLimit, mh \in 0..MaxLimit, ro \in {0, 90, 180, 270},
        mi \in {"unset", "horizontal", "vertical", "both"} }

\* configs that vary the tonal steps, dithering requested
TonalConfigs ==
    { [BaseConfig EXCEPT !.colorFormat = f, !.brightness = br, !.contrast = co,
                         !.dithering = TRUE] :
        f \in {"mono", "grayscale"}, br \in {-40, 0, 40}, co \in {-50, 0, 50} }

PreprocConfigs == ToggleConfigs \cup GeometryConfigs \cup TonalConfigs

RampImages ==
    { PatternImage(w, h, c, 1) : w \in 1..MaxW, h \in 1..MaxH, c \in 1..Len(Palette) }

\* the (image, config) pairs convert is explored on
ConvertInputs ==
    (Images \X CodecConfigs)
    \cup (RampImages \X PreprocConfigs)
    \cup {<<WhiteImage64, BaseConfig>>}

(***************************************************************************)
(* ImageConverter.convert                                                  *)
(***************************************************************************)
\* the statements of applyPreprocessing; st = [image, steps] carries the
\* local `processed` and the operations invoked so far
PreResize(st, cfg) ==
    IF cfg.maxWidth # 0 /\ cfg.maxHeight # 0
    THEN [image |-> resize(st.image, cfg.maxWidth, cfg.maxHeight),
          steps |-> Append(st.steps, "resize")]
    ELSE st

PreRotate(st, cfg) ==
    IF cfg.rotation # 0
    THEN [image |-> rotate(st.image, cfg.rotation),
          steps |-> Append(st.steps, "rotate")]
    ELSE st

PreMirror(st, cfg) ==
    IF cfg.mirror # "unset" /\ cfg.mirror # "none"
    THEN [image |-> mirror(st.image, cfg.mirror),
          steps |-> Append(st.steps, "mirror")]
    ELSE st

PreBrightness(st, cfg) ==
    IF cfg.brightness # 0
    THEN [image |-> adjustBrightness(st.image, cfg.brightness),
          steps |-> Append(st.steps, "brightness")]
    ELSE st

PreContrast(st, cfg) ==
    IF cfg.contrast # 0
    THEN [image |-> adjustContrast(st.image, cfg.contrast),
          steps |-> Append(st.steps, "contrast")]
    ELSE st

PreInvert(st, cfg) ==
    IF cfg.invert
    THEN [image |-> invert(st.image), steps |-> Append(st.steps, "invert")]
    ELSE st

PreDither(st, cfg) ==
    IF cfg.dithering /\ cfg.colorFormat = "mono"
    THEN [image |-> floydSteinbergDithering(st.image),
          steps |-> Append(st.steps, "dither")]
    ELSE st

\* applyPreprocessing with the rotate and mirror statements exchanged
applyPreprocessingMirrorFirst(img, cfg) ==
    PreDither(PreInvert(PreContrast(PreBrightness(PreRotate(PreMirror(PreResize(
        [image |-> img, steps |-> <<>>], cfg), cfg), cfg), cfg), cfg), cfg), cfg)

applyPreprocessing(img, cfg) ==
    PreDither(PreInvert(PreContrast(PreBrightness(PreMirror(PreRotate(PreResize(
        [image |-> img, steps |-> <<>>], cfg), cfg), cfg), cfg), cfg), cfg), cfg)

\* the ConversionResult convert returns
ConversionResult(data, img, cfg) ==
    [ data        |-> data,
      width       |-> img.width,
      height      |-> img.height,
      format      |-> cfg.colorFormat,
      sizeInBytes |-> Len(data),
      metadata    |-> [ width       |-> img.width,
                        height      |-> img.height,
                        colorFormat |-> cfg.colorFormat,
                        scanMode    |-> cfg.scanMode,
                        sizeInBytes |-> Len(data) ] ]

NoImage == [width |-> 0, height |-> 0, data |-> <<>>]

\* convert that stores the config only while currentConfig is undefined
PreprocessKeepConfig ==
    /\ pc = "start"
    /\ currentConfig' = IF currentConfig = <<>> THEN <<config>> ELSE currentConfig
    /\ LET st == applyPreprocessing(image, config)
       IN  /\ processed' = st.image
           /\ steps' = st.steps
    /\ pc' = "preprocessed"
    /\ UNCHANGED <<image, config, convertedData, finalData, result, error, earlier>>
    /\ UNCHANGED fmtVars
    /\ UNCHANGED procVars

\* convert, lines 15-19: store the config, preprocess
Preprocess ==
    /\ pc = "start"
    /\ currentConfig' = <<config>>
    /\ LET st == applyPreprocessing(image, config)
       IN  /\ processed' = st.image
           /\ steps' = st.steps
    /\ pc' = "preprocessed"
    /\ UNCHANGED <<image, config, convertedData, finalData, result, error, earlier>>
    /\ UNCHANGED fmtVars
    /\ UNCHANGED procVars

\* convert, line 22: convertToColorFormat, which may throw
ConvertFormat ==
    /\ pc = "preprocessed"
    /\ LET r == convertToColorFormat(processed, config.colorFormat,
                                     getCurrentConfig(currentConfig))
       IN  IF r.thrown
           THEN /\ error' = "Unsupported color format"
                /\ pc' = "thrown"
                /\ UNCHANGED <<convertedData, steps>>
           ELSE /\ convertedData' = r.data
                /\ steps' = Append(steps, "format")
                /\ pc' = "converted"
                /\ UNCHANGED error
    /\ UNCHANGED <<image, config, currentConfig, processed, finalData, result, earlier>>
    /\ UNCHANGED fmtVars
    /\ UNCHANGED procVars

\* convert, lines 25-30: applyScanMode
Scan ==
    /\ pc = "converted"
    /\ finalData' = applyScanMode(convertedData, processed.width, processed.height,
                                  config.scanMode, getCurrentConfig(currentConfig))
    /\ steps' = Append(steps, "scan")
    /\ pc' = "scanned"
    /\ UNCHANGED <<image, config, currentConfig, processed, convertedData, result,
                   error, earlier>>
    /\ UNCHANGED fmtVars
    /\ UNCHANGED procVars

\* convert, lines 33-48: build the metadata and return
Return ==
    /\ pc = "scanned"
    /\ result' = <<ConversionResult(finalData, processed, config)>>
    /\ pc' = "done"
    /\ UNCHANGED <<image, config, currentConfig, processed, steps, convertedData,
                   finalData, error, earlier>>
    /\ UNCHANGED fmtVars
    /\ UNCHANGED procVars

FmtIdle ==
    /\ payload = <<>>
    /\ metadata = <<>>
    /\ hasConfig = FALSE
    /\ fop = "none"
    /\ fout = <<>>
    /\ pixelBytes = 1
    /\ headerFile = <<>>
    /\ lineIndex = 0

\* no ImageProcessor call sequence is being followed
ProcIdle == trail = <<>>

Init ==
    /\ \E inp \in ConvertInputs :
          /\ image = inp[1]
          /\ config = inp[2]
    /\ pc = "start"
    /\ currentConfig = <<>>
    /\ processed = NoImage
    /\ steps = <<>>
    /\ convertedData = <<>>
    /\ finalData = <<>>
    /\ result = <<>>
    /\ error = "none"
    /\ earlier = <<>>
    /\ FmtIdle
    /\ ProcIdle

Next ==
    \/ Preprocess
    \/ ConvertFormat
    \/ Scan
    \/ Return

Spec == Init /\ [][Next]_vars

(***************************************************************************)
(* DataFormatter                                                           *)
(***************************************************************************)
\* bits 0-1 of the scan byte: the switch on config.scanMode
ScanModeBits(scanMode) ==
    CASE scanMode = "horizontal" -> 0
      [] scanMode = "vertical" -> 1
      [] scanMode = "horizontal-reverse-byte-vertical" -> 2
      [] scanMode = "data-vertical-byte-horizontal" -> 3
      [] OTHER -> 0

\* width & 0xFF, (width >> 8) & 0xFF
LittleEndian16(n) == <<BitAnd(n, 255), BitAnd(Shr(n, 8), 255)>>

generateHEADGRAY(cfg, width, height) ==
    LET s0 == ScanModeBits(cfg.scanMode)
        s1 == IF cfg.byteOrderInWord = "reverse-order" THEN BitOr(s0, 16) ELSE s0
        s2 == IF cfg.bitOrderInByte = "lsb-first" THEN BitOr(s1, 32) ELSE s1
        s3 == IF cfg.reverseScan THEN BitOr(s2, 64) ELSE s2
        scanByte == IF cfg.forwardScan THEN BitOr(s3, 128) ELSE s3
        gray == CASE cfg.colorFormat = "mono" -> 1
                  [] cfg.colorFormat = "gray4" -> 2
                  [] cfg.colorFormat = "gray16" -> 4
                  [] cfg.colorFormat = "color256" -> 8
                  [] OTHER -> 1
    IN  <<scanByte, gray>> \o LittleEndian16(width) \o LittleEndian16(height)

\* value << ((2 - i) * 2) for slot i of the rgbOrder string
RgbComponentBits(order, i) ==
    LET letters == CASE order = "RGB" -> <<1, 2, 3>>
                     [] order = "RBG" -> <<1, 3, 2>>
                     [] order = "GRB" -> <<2, 1, 3>>
                     [] order = "GBR" -> <<2, 3, 1>>
                     [] order = "BRG" -> <<3, 1, 2>>
                     [] order = "BGR" -> <<3, 2, 1>>
                     [] OTHER -> <<0, 0, 0>>
    IN  Shl(letters[i + 1], (2 - i) * 2)

generateHEADCOLOR(cfg, width, height) ==
    LET s0 == ScanModeBits(cfg.scanMode)
        s1 == IF cfg.byteOrderInWord = "reverse-order" THEN BitOr(s0, 16) ELSE s0
        s2 == IF cfg.bitOrderInByte = "lsb-first" THEN BitOr(s1, 32) ELSE s1
        s3 == IF cfg.reverseScan THEN BitOr(s2, 64) ELSE s2
        scanByte == IF cfg.forwardScan THEN BitOr(s3, 128) ELSE s3
        gray == CASE cfg.colorFormat = "color4096" -> 12
                  [] cfg.colorFormat \in {"color16bit", "rgb565"} -> 16
                  [] cfg.colorFormat = "color18bit" -> 18
                  [] cfg.colorFormat \in {"color24bit", "rgb888"} -> 24
                  [] cfg.colorFormat = "color32bit" -> 32
                  [] OTHER -> 16
        is565 == CASE cfg.colorFormat = "color4096" ->
                        IF cfg.color4096Format = "12bits-3bytes" THEN 1 ELSE 0
                   [] cfg.colorFormat \in {"color16bit", "rgb565"} ->
                        IF cfg.color16bitFormat = "rgb565" THEN 1 ELSE 0
                   [] cfg.colorFormat = "color18bit" ->
                        IF cfg.color18bitFormat = "6bits-high-byte" THEN 1 ELSE 0
                   [] OTHER -> 0
        order == OrDefault(cfg.rgbOrder, "RGB")
        rgbByte == BitOr(BitOr(RgbComponentBits(order, 0), RgbComponentBits(order, 1)),
                         RgbComponentBits(order, 2))
    IN  <<scanByte, gray>> \o LittleEndian16(width) \o LittleEndian16(height)
        \o <<is565, rgbByte>>

generateRGB332Palette ==
    [k \in 1..(256 * 3) |->
        LET i == (k - 1) \div 3
            r == BitAnd(Shr(i, 5), 7)
            g == BitAnd(Shr(i, 2), 7)
            b == BitAnd(i, 3)
        IN  CASE (k - 1) % 3 = 0 -> ToUint8(BitOr(BitOr(Shl(r, 5), Shl(r, 2)), Shr(r, 1)))
              [] (k - 1) % 3 = 1 -> ToUint8(BitOr(BitOr(Shl(g, 5), Shl(g, 2)), Shr(g, 1)))
              [] OTHER -> ToUint8(BitOr(BitOr(BitOr(Shl(b, 6), Shl(b, 4)), Shl(b, 2)), b))]

generateGrayscalePalette == [k \in 1..(256 * 3) |-> (k - 1) \div 3]

\* cfg.customPalette is <<>> when absent, <<bytes>> when supplied
generatePALETTE(cfg) ==
    LET paletteData ==
            IF cfg.customPalette # <<>> THEN cfg.customPalette[1]
            ELSE IF cfg.paletteType = "grayscale" THEN generateGrayscalePalette
            ELSE generateRGB332Palette
        numEntries == Len(paletteData) \div 3
    IN  LittleEndian16(numEntries) \o paletteData

\* the formats formatAsBinary / formatAsCArray give a HEADGRAY
IsGrayFormat(colorFormat) == colorFormat \in {"mono", "gray4", "gray16", "color256"}

\* formatAsBinary that writes the palette in front of the header
formatAsBinaryPaletteFirst(data, hasCfg, cfg, meta) ==
    IF ~hasCfg \/ meta = <<>> \/ ~cfg.includeHeader
    THEN data
    ELSE LET header == IF IsGrayFormat(cfg.colorFormat)
                       THEN generateHEADGRAY(cfg, meta[1].width, meta[1].height)
                       ELSE generateHEADCOLOR(cfg, meta[1].width, meta[1].height)
         IN  IF cfg.colorFormat = "color256" /\ cfg.includePalette
             THEN generatePALETTE(cfg) \o header \o data
             ELSE header \o data

\* formatAsBinary(data, config?, metadata?): hasCfg is FALSE when config is
\* omitted, meta is <<>> when metadata is omitted
formatAsBinary(data, hasCfg, cfg, meta) ==
    IF ~hasCfg \/ meta = <<>> \/ ~cfg.includeHeader
    THEN data
    ELSE LET header == IF IsGrayFormat(cfg.colorFormat)
                       THEN generateHEADGRAY(cfg, meta[1].width, meta[1].height)
                       ELSE generateHEADCOLOR(cfg, meta[1].width, meta[1].height)
         IN  IF cfg.colorFormat = "color256" /\ cfg.includePalette
             THEN header \o generatePALETTE(cfg) \o data
             ELSE header \o data

(***************************************************************************)
(* DataFormatter calls on drawn arguments                                  *)
(***************************************************************************)
MaxPayload == 4

Payloads ==
    { [k \in 1..n |-> (start + 83 * k) % 256] : n \in 0..MaxPayload, start \in {0, 200} }

\* width and height values covering both bytes of the 16-bit fields
DimSamples == {0, 1, 255, 256, 4660, 65535}

\* configs that vary what the scan byte encodes
HeaderFlagConfigs ==
    { [BaseConfig EXCEPT !.includeHeader = TRUE, !.colorFormat = f, !.scanMode = m,
                         !.byteOrderInWord = bw, !.bitOrderInByte = bo,
                         !.reverseScan = rs, !.forwardScan = fs] :
        f \in {"mono", "color16bit"}, m \in ScanModes,
        bw \in {"unset", "pc-order", "reverse-order"},
        bo \in {"unset", "msb-first", "lsb-first"},
        rs \in BOOLEAN, fs \in BOOLEAN }

CustomPalettes == { <<>>, << <<>> >>, << <<10, 20, 30>> >>, << <<1, 2, 3, 4, 5, 6, 7>> >> }

\* configs that vary what is framed around the payload
FramingConfigs ==
    { [BaseConfig EXCEPT !.colorFormat = f, !.includeHeader = ih,
                         !.includePalette = ip, !.paletteType = pt] :
        f \in SupportedFormats \cup {"bogus"}, ih \in BOOLEAN, ip \in BOOLEAN,
        pt \in {"unset", "rgb332", "grayscale"} }
    \cup
    { [BaseConfig EXCEPT !.colorFormat = "color256", !.includeHeader = ih,
                         !.includePalette = ip, !.customPalette = cp] :
        ih \in BOOLEAN, ip \in BOOLEAN, cp \in CustomPalettes }
    \cup
    { [BaseConfig EXCEPT !.colorFormat = f, !.includeHeader = TRUE,
                         !.color4096Format = o1, !.color16bitFormat = o2,
                         !.color18bitFormat = o3, !.rgbOrder = o4] :
        f \in {"color4096", "color16bit", "rgb565", "color18bit", "color24bit", "color32bit"},
        o1 \in {"unset", "12bits-3bytes"}, o2 \in {"unset", "rgb565", "rgb555"},
        o3 \in {"unset", "6bits-high-byte"}, o4 \in {"unset", "GBR", "BGR"} }

ImageMetadata(cfg, width, height, data) ==
    [ width       |-> width,
      height      |-> height,
      colorFormat |-> cfg.colorFormat,
      scanMode    |-> cfg.scanMode,
      sizeInBytes |-> Len(data) ]

\* the (config given?, config, width, height, metadata given?, data) tuples
\* the formatter is explored on
FormatInputs ==
    { <<TRUE, cfg, w, h, TRUE, <<7>> >> :
        cfg \in HeaderFlagConfigs, w \in {0, 255, 4660}, h \in {1, 65535} }
    \cup
    { <<TRUE, BaseConfig, w, h, TRUE, <<>> >> : w \in DimSamples, h \in DimSamples }
    \cup
    { <<hc, cfg, 256, 3, hm, data>> :
        hc \in BOOLEAN, cfg \in FramingConfigs, hm \in BOOLEAN, data \in Payloads }

ConvIdle ==
    /\ image = NoImage
    /\ pc = "idle"
    /\ currentConfig = <<>>
    /\ processed = NoImage
    /\ steps = <<>>
    /\ convertedData = <<>>
    /\ finalData = <<>>
    /\ result = <<>>
    /\ error = "none"
    /\ earlier = <<>>

InitFormat ==
    /\ \E inp \in FormatInputs :
          /\ hasConfig = inp[1]
          /\ config = IF inp[1] THEN inp[2] ELSE BaseConfig
          /\ metadata = IF inp[5] THEN <<ImageMetadata(inp[2], inp[3], inp[4], inp[6])>>
                                  ELSE <<>>
          /\ payload = inp[6]
    /\ fop = "none"
    /\ fout = <<>>
    /\ pixelBytes = 1
    /\ headerFile = <<>>
    /\ lineIndex = 0
    /\ ConvIdle
    /\ ProcIdle

GenerateHEADGRAY ==
    /\ fop = "none"
    /\ hasConfig /\ metadata # <<>>
    /\ fout' = generateHEADGRAY(config, metadata[1].width, metadata[1].height)
    /\ fop' = "generateHEADGRAY"
    /\ UNCHANGED <<payload, metadata, hasConfig, pixelBytes, headerFile, lineIndex>>
    /\ UNCHANGED convVars
    /\ UNCHANGED procVars

GenerateHEADCOLOR ==
    /\ fop = "none"
    /\ hasConfig /\ metadata # <<>>
    /\ fout' = generateHEADCOLOR(config, metadata[1].width, metadata[1].height)
    /\ fop' = "generateHEADCOLOR"
    /\ UNCHANGED <<payload, metadata, hasConfig, pixelBytes, headerFile, lineIndex>>
    /\ UNCHANGED convVars
    /\ UNCHANGED procVars

FormatAsBinary ==
    /\ fop = "none"
    /\ fout' = formatAsBinary(payload, hasConfig, config, metadata)
    /\ fop' = "formatAsBinary"
    /\ UNCHANGED <<payload, metadata, hasConfig, pixelBytes, headerFile, lineIndex>>
    /\ UNCHANGED convVars
    /\ UNCHANGED procVars

NextFormat ==
    \/ GenerateHEADGRAY
    \/ GenerateHEADCOLOR
    \/ FormatAsBinary

SpecFormat == InitFormat /\ [][NextFormat]_vars

(***************************************************************************)
(* Properties of convert                                                   *)
(***************************************************************************)
CeilDiv(a, b) == (a + b - 1) \div b

\* convert's resize step leaves the source as it is
NoResize ==
    \/ config.maxWidth = 0
    \/ config.maxHeight = 0
    \/ (image.width <= config.maxWidth /\ image.height <= config.maxHeight)

Returned == pc = "done" /\ Len(result) = 1

BitsOfSubByteFormat(f) ==
    CASE f = "mono" -> 1 [] f = "gray4" -> 2 [] f = "gray16" -> 4

\* C1: for mono, gray4 and gray16 (b = 1, 2, 4 bits per pixel) and every
\* w x h image that needs no resize, the payload convert returns, and its
\* sizeInBytes, is exactly ceil(w * h * b / 8) bytes long
C1_SubByteSize ==
    (Returned /\ config.colorFormat \in {"mono", "gray4", "gray16"} /\ NoResize
        /\ image.width >= 1 /\ image.height >= 1)
    => LET size == CeilDiv(image.width * image.height
                           * BitsOfSubByteFormat(config.colorFormat), 8)
       IN  /\ Len(result[1].data) = size
           /\ result[1].sizeInBytes = size

\* a 3 x 1 gray4 image (3 pixels, not a multiple of 4) was returned as 1 byte
C1_Witness ==
    /\ Returned
    /\ config.colorFormat = "gray4"
    /\ image.width = 3 /\ image.height = 1
    /\ config.scanMode = "vertical"
    /\ result[1].sizeInBytes = 1

BytesOfAlignedFormat(f) ==
    CASE f \in {"grayscale", "color256"} -> 1
      [] f \in {"color16bit", "rgb565", "color4096"} -> 2
      [] f \in {"color18bit", "color24bit", "rgb888"} -> 3
      [] f = "color32bit" -> 4

AlignedFormats ==
    {"grayscale", "color256", "color16bit", "rgb565", "color4096", "color18bit",
     "color24bit", "rgb888", "color32bit"}

\* C2: for every byte-aligned format (color4096 in its 16bits-word layout)
\* and every w x h image that needs no resize, the returned payload has
\* exactly w * h * bytesPerPixel bytes, sizeInBytes equals the payload length
\* and metadata.scanMode is the scan mode passed, whatever that scan mode is
C2_AlignedSize ==
    (Returned /\ config.colorFormat \in AlignedFormats /\ NoResize
        /\ ~(config.colorFormat = "color4096"
             /\ config.color4096Format = "12bits-3bytes"))
    => /\ Len(result[1].data)
            = image.width * image.height * BytesOfAlignedFormat(config.colorFormat)
       /\ result[1].sizeInBytes = Len(result[1].data)
       /\ result[1].metadata.scanMode = config.scanMode

\* a 3 x 2 rgb565 image converted under a scan mode that is not one of the
\* four defined ones came back as 12 bytes
C2_Witness ==
    /\ Returned
    /\ config.colorFormat = "rgb565"
    /\ config.scanMode = "horizontal-reverse"
    /\ image.width = 3 /\ image.height = 2
    /\ Len(result[1].data) = 12
    /\ result[1].metadata.scanMode = "horizontal-reverse"

Converted == pc \in {"converted", "scanned", "done"}

\* the value the sub-byte formats store for a pixel with R + G + B = sum
SubByteLevel(f, sum) ==
    CASE f = "mono"   -> IF sum >= 384 THEN 1 ELSE 0
      [] f = "gray4"  -> sum \div 192
      [] f = "gray16" -> sum \div 48

\* C3: for mono, gray4 and gray16 (b bits) pixel i of the preprocessed image
\* is stored in byte floor(i*b/8) at bit shift 8-b-((i*b) mod 8) with value
\* [(R+G+B)/3 >= 128], floor(((R+G+B)/3)/64), floor(((R+G+B)/3)/16); the
\* unused low bits of the last byte are 0; a 64x64 all-white image converted
\* to mono with horizontal scan gives 512 bytes 0xFF
C3_SubBytePacking ==
    /\ (Converted /\ config.colorFormat \in {"mono", "gray4", "gray16"})
       => LET b == BitsOfSubByteFormat(config.colorFormat)
              n == processed.width * processed.height
          IN  /\ \A i \in 0..(n - 1) :
                    (convertedData[((i * b) \div 8) + 1] \div (2 ^ (8 - b - ((i * b) % 8))))
                        % (2 ^ b)
                    = SubByteLevel(config.colorFormat, RgbSum(processed.data, i))
              /\ \A k \in 1..Len(convertedData) : convertedData[k] \in 0..255
              /\ (n * b) % 8 # 0
                    => convertedData[Len(convertedData)] % (2 ^ (8 - ((n * b) % 8))) = 0
    /\ (Returned /\ image = WhiteImage64 /\ config.colorFormat = "mono"
            /\ config.scanMode = "horizontal")
       => /\ Len(result[1].data) = 512
          /\ \A k \in 1..512 : result[1].data[k] = 255

\* the 64x64 all-white image was converted to mono, horizontal scan
C3_Witness ==
    /\ Returned
    /\ image = WhiteImage64
    /\ config.colorFormat = "mono"
    /\ config.scanMode = "horizontal"
    /\ Len(result[1].data) = 512

RedImage2x2 == PatternImage(2, 2, 3, 0)

\* C4: color16bit / rgb565 with sub-option rgb565 or unset stores each pixel
\* as the two bytes, high first, of (R>>3)<<11 | (G>>2)<<5 | (B>>3); with
\* rgb555 of (R>>3)<<10 | (G>>3)<<5 | (B>>3), whose top bit is 0; a 2x2
\* all-red image gives F8 00 F8 00 F8 00 F8 00
C4_Color16Words ==
    /\ (Converted /\ config.colorFormat \in {"color16bit", "rgb565"})
       => \A i \in 0..(processed.width * processed.height - 1) :
            LET hi == convertedData[2 * i + 1]
                lo == convertedData[2 * i + 2]
                R  == At(processed.data, 4 * i)
                G  == At(processed.data, 4 * i + 1)
                B  == At(processed.data, 4 * i + 2)
            IN  /\ hi \in 0..255 /\ lo \in 0..255
                /\ config.color16bitFormat \in {"rgb565", "unset"}
                     => hi * 256 + lo = (R \div 8) * 2048 + (G \div 4) * 32 + (B \div 8)
                /\ config.color16bitFormat = "rgb555"
                     => /\ hi * 256 + lo = (R \div 8) * 1024 + (G \div 8) * 32 + (B \div 8)
                        /\ hi < 128
    /\ (Returned /\ image = RedImage2x2 /\ NoResize
            /\ config.colorFormat \in {"color16bit", "rgb565"}
            /\ config.color16bitFormat \in {"rgb565", "unset"})
       => result[1].data = <<248, 0, 248, 0, 248, 0, 248, 0>>

\* the 2x2 all-red image was converted to color16bit / rgb565
C4_Witness ==
    /\ Returned
    /\ image = RedImage2x2
    /\ config.colorFormat = "color16bit"
    /\ config.color16bitFormat = "rgb565"
    /\ result[1].data = <<248, 0, 248, 0, 248, 0, 248, 0>>

PreprocessingOrder ==
    <<"resize", "rotate", "mirror", "brightness", "contrast", "invert", "dither">>

\* the step is requested by the config convert was given
StepRequested(step) ==
    CASE step = "resize"     -> config.maxWidth # 0 /\ config.maxHeight # 0
      [] step = "rotate"     -> config.rotation # 0
      [] step = "mirror"     -> config.mirror \notin {"none", "unset"}
      [] step = "brightness" -> config.brightness # 0
      [] step = "contrast"   -> config.contrast # 0
      [] step = "invert"     -> config.invert
      [] step = "dither"     -> config.dithering /\ config.colorFormat = "mono"

RequestedSteps == SelectSeq(PreprocessingOrder, StepRequested)

\* C8: convert invokes exactly the requested preprocessing steps, each once,
\* in the order resize, rotate, mirror, brightness, contrast, invert, dither
\* (dither only for mono), then the format conversion, then the scan
\* transform; the result has the width and height of the preprocessed image,
\* which are the source's swapped after a 90 or 270 degree rotation when no
\* resize occurs
C8_PipelineOrder ==
    /\ pc = "start" => steps = <<>>
    /\ pc \in {"preprocessed", "thrown"} => steps = RequestedSteps
    /\ pc = "converted" => steps = RequestedSteps \o <<"format">>
    /\ pc \in {"scanned", "done"} => steps = RequestedSteps \o <<"format", "scan">>
    /\ Returned
       => /\ result[1].width = processed.width
          /\ result[1].height = processed.height
          /\ (NoResize /\ config.rotation \in {90, 270})
                => /\ result[1].width = image.height
                   /\ result[1].height = image.width
          /\ (NoResize /\ config.rotation \in {0, 180})
                => /\ result[1].width = image.width
                   /\ result[1].height = image.height

\* a conversion that requested all seven steps has returned, for an image
\* whose rotation swapped unequal sides
C8_Witness ==
    /\ Returned
    /\ steps = PreprocessingOrder \o <<"format", "scan">>
    /\ result[1].width # result[1].height

\* C9: with a colorFormat that is not an accepted identifier convert throws
\* the unsupported-format error and returns nothing; with an accepted one it
\* never throws and runs to a complete ConversionResult
C9_UnsupportedFormat ==
    /\ config.colorFormat \notin ColorFormatType
       => /\ result = <<>>
          /\ finalData = <<>>
          /\ convertedData = <<>>
          /\ pc \in {"start", "preprocessed", "thrown"}
          /\ pc = "thrown" => error = "Unsupported color format"
          /\ pc # "thrown" => error = "none"
    /\ config.colorFormat \in ColorFormatType
       => /\ error = "none"
          /\ pc # "thrown"
          /\ pc # "done" => result = <<>>
          /\ pc = "done"
               => /\ Len(result) = 1
                  /\ result[1].data = finalData
                  /\ result[1].sizeInBytes = Len(finalData)
                  /\ result[1].format = config.colorFormat
                  /\ result[1].metadata.colorFormat = config.colorFormat
                  /\ result[1].metadata.sizeInBytes = Len(finalData)
                  /\ result[1].metadata.width = result[1].width
                  /\ result[1].metadata.height = result[1].height

\* convert has thrown on the format "bogus" without a result
C9_Witness ==
    /\ pc = "thrown"
    /\ config.colorFormat = "bogus"
    /\ error = "Unsupported color format"
    /\ result = <<>>

\* C10: no ConversionResult returned by convert has width or height <= 0
\* (a resize to a zero dimension fails instead of returning)
C10_NoZeroDimension ==
    Returned => result[1].width > 0 /\ result[1].height > 0

(***************************************************************************)
(* Properties of the DataFormatter                                         *)
(***************************************************************************)
HeaderGenerated == fop \in {"generateHEADGRAY", "generateHEADCOLOR"}

Bit(byte, n) == (byte \div (2 ^ n)) % 2

ScanModeOrdinal(m) ==
    CASE m = "horizontal" -> 0
      [] m = "vertical" -> 1
      [] m = "horizontal-reverse-byte-vertical" -> 2
      [] m = "data-vertical-byte-horizontal" -> 3

DefinedScanModes ==
    {"horizontal", "vertical", "horizontal-reverse-byte-vertical",
     "data-vertical-byte-horizontal"}

\* C5: byte 0 of both headers holds the scan-mode ordinal in bits 0-1, 0 in
\* bits 2-3, bit 4 iff byteOrderInWord is reverse-order, bit 5 iff
\* bitOrderInByte is lsb-first, bit 6 iff horizontal reverse scanning is
\* requested, and bit 7 is clear when forward scanning is requested; bytes
\* 2-3 and 4-5 are width and height, little-endian
C5_ScanByte ==
    HeaderGenerated
    => /\ config.scanMode \in DefinedScanModes
            => fout[1] % 4 = ScanModeOrdinal(config.scanMode)
       /\ Bit(fout[1], 2) = 0 /\ Bit(fout[1], 3) = 0
       /\ Bit(fout[1], 4) = 1 <=> config.byteOrderInWord = "reverse-order"
       /\ Bit(fout[1], 5) = 1 <=> config.bitOrderInByte = "lsb-first"
       /\ Bit(fout[1], 6) = 1 <=> config.reverseScan
       /\ config.forwardScan => Bit(fout[1], 7) = 0
       /\ fout[3] + 256 * fout[4] = metadata[1].width
       /\ fout[5] + 256 * fout[6] = metadata[1].height

TenFormats ==
    {"mono", "gray4", "gray16", "grayscale", "color256", "color4096",
     "color16bit", "color18bit", "color24bit", "color32bit"}

GrayClass == {"mono", "gray4", "gray16", "grayscale", "color256"}

ColourDepth(f) ==
    CASE f = "mono" -> 1 [] f = "gray4" -> 2 [] f = "gray16" -> 4
      [] f = "grayscale" -> 8 [] f = "color256" -> 8 [] f = "color4096" -> 12
      [] f = "color16bit" -> 16 [] f = "color18bit" -> 18
      [] f = "color24bit" -> 24 [] f = "color32bit" -> 32

\* formatAsBinary ran with config and metadata given and a header requested
HeaderFramed ==
    /\ fop = "formatAsBinary"
    /\ hasConfig /\ metadata # <<>>
    /\ config.includeHeader

\* C6: the header formatAsBinary prepends has 6 bytes for mono, gray4,
\* gray16, grayscale and color256 and 8 bytes for color4096, color16bit,
\* color18bit, color24bit and color32bit, and its byte 1 is the colour depth
\* of the format
C6_HeaderVariant ==
    (HeaderFramed /\ config.colorFormat \in TenFormats /\ ~config.includePalette)
    => /\ Len(fout) - Len(payload)
            = IF config.colorFormat \in GrayClass THEN 6 ELSE 8
       /\ fout[2] = ColourDepth(config.colorFormat)

\* the header and the palette formatAsBinary frames the payload with
FramedHeader ==
    IF IsGrayFormat(config.colorFormat)
    THEN generateHEADGRAY(config, metadata[1].width, metadata[1].height)
    ELSE generateHEADCOLOR(config, metadata[1].width, metadata[1].height)

applyByteOrderRotate(data, byteOrder, bytesPerPixel) ==
    IF byteOrder = "msb" \/ bytesPerPixel = 1
    THEN data
    ELSE [k \in 1..Len(data) |->
            LET i == ((k - 1) \div bytesPerPixel) * bytesPerPixel
                j == (k - 1) % bytesPerPixel
                src == i + ((j + 1) % bytesPerPixel)
            IN  IF src < Len(data) THEN At(data, src) ELSE 0]

\* applyByteOrder: result[i + j] = data[i + (bytesPerPixel - 1 - j)]; a read
\* past the end of data stores 0, a write past the end of result is dropped
applyByteOrder(data, byteOrder, bytesPerPixel) ==
    IF byteOrder = "msb" \/ bytesPerPixel = 1
    THEN data
    ELSE [k \in 1..Len(data) |->
            LET i == ((k - 1) \div bytesPerPixel) * bytesPerPixel
                j == (k - 1) % bytesPerPixel
                src == i + (bytesPerPixel - 1 - j)
            IN  IF src < Len(data) THEN At(data, src) ELSE 0]

LowerHex == <<"0", "1", "2", "3", "4", "5", "6", "7", "8", "9",
              "a", "b", "c", "d", "e", "f">>

UpperHex == <<"0", "1", "2", "3", "4", "5", "6", "7", "8", "9",
              "A", "B", "C", "D", "E", "F">>

\* b.toString(16) of a byte: one or two lower-case digits
toString16(b) ==
    IF b < 16 THEN <<LowerHex[b + 1]>>
    ELSE <<LowerHex[(b \div 16) + 1], LowerHex[(b % 16) + 1]>>

\* s.padStart(2, '0')
padStart2(s) == IF Len(s) < 2 THEN <<"0">> \o s ELSE s

\* s.toUpperCase()
toUpperCase(s) ==
    [i \in 1..Len(s) |->
        IF \E v \in 1..16 : LowerHex[v] = s[i]
        THEN UpperHex[CHOOSE v \in 1..16 : LowerHex[v] = s[i]]
        ELSE s[i]]

\* `0x${b.toString(16).padStart(2, '0').toUpperCase()}` without the upper-casing
HexTokenLowerCase(b) == <<"0", "x">> \o padStart2(toString16(b))

\* `0x${b.toString(16).padStart(2, '0').toUpperCase()}`
HexToken(b) == <<"0", "x">> \o toUpperCase(padStart2(toString16(b)))

\* `${n}` of a non-negative integer
RECURSIVE Decimal(_)
Decimal(n) ==
    IF n < 10 THEN <<UpperHex[n + 1]>>
    ELSE Decimal(n \div 10) \o <<UpperHex[(n % 10) + 1]>>

\* parts.join(sep), sep a sequence of fragments
RECURSIVE Join(_, _)
Join(parts, sep) ==
    IF parts = <<>> THEN <<>>
    ELSE IF Len(parts) = 1 THEN parts[1]
    ELSE parts[1] \o sep \o Join(Tail(parts), sep)

\* data.slice(i, Math.min(i + bytesPerLine, data.length)) for i = 0,
\* bytesPerLine, 2 * bytesPerLine, ...
Chunks(data, bytesPerLine) ==
    [c \in 1..((Len(data) + bytesPerLine - 1) \div bytesPerLine) |->
        SubSeq(data, (c - 1) * bytesPerLine + 1,
               IF c * bytesPerLine < Len(data) THEN c * bytesPerLine ELSE Len(data))]

\* formatAsHexText for bytesPerLine >= 1
formatAsHexText(data, bytesPerLine) ==
    LET chunks == Chunks(data, bytesPerLine)
    IN  [c \in 1..Len(chunks) |->
            Join([t \in 1..Len(chunks[c]) |-> HexToken(chunks[c][t])], <<" ">>)]

\* fullData of formatAsCArray: header and palette in front of the data
CArrayFullData(data, cfg, meta) ==
    IF cfg.includeHeader
    THEN LET header == IF IsGrayFormat(cfg.colorFormat)
                       THEN generateHEADGRAY(cfg, meta.width, meta.height)
                       ELSE generateHEADCOLOR(cfg, meta.width, meta.height)
         IN  IF cfg.colorFormat = "color256" /\ cfg.includePalette
             THEN header \o generatePALETTE(cfg) \o data
             ELSE header \o data
    ELSE data

\* the lines formatAsCArray pushes before its loop: the metadata comment and
\* the array declaration
CArrayPreamble(fullData, cfg, meta) ==
    << <<"/*">>,
       <<" * Image: ", cfg.identifierName>>,
       <<" * Width: ">> \o Decimal(meta.width) \o <<"px">>,
       <<" * Height: ">> \o Decimal(meta.height) \o <<"px">>,
       <<" * Format: ", meta.colorFormat>>,
       <<" * Scan Mode: ", meta.scanMode>>,
       <<" * Size: ">> \o Decimal(Len(fullData)) \o <<" bytes">> >>
    \o (IF cfg.includeHeader THEN << <<" * Includes Image2Lcd header">> >>
                             ELSE <<>>)
    \o << <<" */">>, <<>> >>
    \o << <<"const unsigned char ", cfg.identifierName, "[] = {">> >>

\* formatAsCArray for bytesPerLine >= 1
formatAsCArray(data, cfg, meta) ==
    LET fullData == CArrayFullData(data, cfg, meta)
        chunks == Chunks(fullData, cfg.bytesPerLine)
        body ==
            [c \in 1..Len(chunks) |->
                <<"  ">>
                \o Join([t \in 1..Len(chunks[c]) |-> HexToken(chunks[c][t])], <<",", " ">>)
                \o (IF c * cfg.bytesPerLine < Len(fullData) THEN <<",">> ELSE <<>>)]
    IN  CArrayPreamble(fullData, cfg, meta)
        \o body
        \o << <<"};">>, <<>> >>

\* identifierName.toUpperCase() for the identifiers of the explored configs
IdentifierUpperCase(identifierName) ==
    CASE identifierName = "image_data" -> "IMAGE_DATA"

generateHeaderFile(meta, identifierName) ==
    LET guardName == <<IdentifierUpperCase(identifierName), "_H">>
    IN  << <<"#ifndef ">> \o guardName,
           <<"#define ">> \o guardName,
           <<>>,
           <<"/*">>,
           <<" * Image: ", identifierName>>,
           <<" * Width: ">> \o Decimal(meta.width) \o <<"px">>,
           <<" * Height: ">> \o Decimal(meta.height) \o <<"px">>,
           <<" * Format: ", meta.colorFormat>>,
           <<" * Scan Mode: ", meta.scanMode>>,
           <<" * Size: ">> \o Decimal(meta.sizeInBytes) \o <<" bytes">>,
           <<" */">>,
           <<>>,
           <<"extern const unsigned char ", identifierName, "[];">>,
           <<"#define ", IdentifierUpperCase(identifierName), "_WIDTH ">>
               \o Decimal(meta.width),
           <<"#define ", IdentifierUpperCase(identifierName), "_HEIGHT ">>
               \o Decimal(meta.height),
           <<"#define ", IdentifierUpperCase(identifierName), "_SIZE ">>
               \o Decimal(meta.sizeInBytes),
           <<>>,
           <<"#endif // ">> \o guardName,
           <<>> >>

(***************************************************************************)
(* The conversion pipeline of the command line tool and the preview:       *)
(* convert, then formatAsBinary or formatAsCArray on its result            *)
(***************************************************************************)
\* formats whose pixels take more than one byte, with that size
MultiByteFormats == {"color16bit", "color24bit", "color32bit"}

PipelineConfigs ==
    { [BaseConfig EXCEPT !.colorFormat = f, !.byteOrder = bo, !.includeHeader = ih,
                         !.bytesPerLine = 4] :
        f \in MultiByteFormats \cup {"color256"}, bo \in {"msb", "lsb"}, ih \in BOOLEAN }

\* configs with a header that set, or leave unset, the format sub-options
VariantConfigs ==
    { [BaseConfig EXCEPT !.colorFormat = "color4096", !.includeHeader = TRUE,
                         !.bytesPerLine = 4, !.color4096Format = o] :
        o \in {"unset", "12bits-3bytes", "16bits-word"} }
    \cup
    { [BaseConfig EXCEPT !.colorFormat = f, !.includeHeader = TRUE,
                         !.bytesPerLine = 4, !.color16bitFormat = o] :
        f \in {"color16bit", "rgb565"}, o \in {"unset", "rgb565", "rgb555"} }
    \cup
    { [BaseConfig EXCEPT !.colorFormat = "color18bit", !.includeHeader = TRUE,
                         !.bytesPerLine = 4, !.color18bitFormat = o] :
        o \in {"unset", "6bits-low-byte", "6bits-high-byte"} }

PipelineInputs == Images \X (PipelineConfigs \cup VariantConfigs)

InitPipeline ==
    /\ \E inp \in PipelineInputs :
          /\ image = inp[1]
          /\ config = inp[2]
    /\ pc = "start"
    /\ currentConfig = <<>>
    /\ processed = NoImage
    /\ steps = <<>>
    /\ convertedData = <<>>
    /\ finalData = <<>>
    /\ result = <<>>
    /\ error = "none"
    /\ earlier = <<>>
    /\ FmtIdle
    /\ ProcIdle

\* output = formatter.formatAsBinary(result.data): config and metadata omitted
EmitBinary ==
    /\ pc = "done"
    /\ fop = "none"
    /\ payload' = result[1].data
    /\ metadata' = <<>>
    /\ hasConfig' = FALSE
    /\ fout' = formatAsBinary(result[1].data, FALSE, config, <<>>)
    /\ fop' = "formatAsBinary"
    /\ UNCHANGED <<pixelBytes, headerFile, lineIndex>>
    /\ UNCHANGED convVars
    /\ UNCHANGED procVars

\* formatter.formatAsCArray(result.data, config, result.metadata)
EmitCArray ==
    /\ pc = "done"
    /\ fop = "none"
    /\ payload' = result[1].data
    /\ metadata' = <<result[1].metadata>>
    /\ hasConfig' = TRUE
    /\ fout' = formatAsCArray(result[1].data, config, result[1].metadata)
    /\ fop' = "formatAsCArray"
    /\ UNCHANGED <<pixelBytes, headerFile, lineIndex>>
    /\ UNCHANGED convVars
    /\ UNCHANGED procVars

\* the command line tool, after writing a C array with includeHeader set:
\* formatter.generateHeaderFile(result.metadata, config.identifierName)
EmitHeaderFile ==
    /\ pc = "done"
    /\ fop = "formatAsCArray"
    /\ config.includeHeader
    /\ headerFile = <<>>
    /\ headerFile' = generateHeaderFile(result[1].metadata, config.identifierName)
    /\ UNCHANGED <<payload, metadata, hasConfig, fop, fout, pixelBytes, lineIndex>>
    /\ UNCHANGED convVars
    /\ UNCHANGED procVars

NextPipeline ==
    \/ Preprocess
    \/ ConvertFormat
    \/ Scan
    \/ Return
    \/ EmitBinary
    \/ EmitCArray
    \/ EmitHeaderFile

SpecPipeline == InitPipeline /\ [][NextPipeline]_vars

(***************************************************************************)
(* Properties of the conversion pipeline                                   *)
(***************************************************************************)
IsUpperHex(ch) == \E v \in 1..16 : UpperHex[v] = ch

HexValue(ch) == (CHOOSE v \in 1..16 : UpperHex[v] = ch) - 1

\* the bytes named by the 0xHH tokens of a line, in order
RECURSIVE HexTokens(_)
HexTokens(line) ==
    IF Len(line) < 4 THEN <<>>
    ELSE IF /\ line[1] = "0" /\ line[2] = "x"
            /\ IsUpperHex(line[3]) /\ IsUpperHex(line[4])
         THEN <<16 * HexValue(line[3]) + HexValue(line[4])>>
              \o HexTokens(SubSeq(line, 5, Len(line)))
         ELSE HexTokens(Tail(line))

\* the lines between the array declaration and the closing "};"
ArrayBody(text) ==
    LET d == CHOOSE i \in 1..Len(text) :
                 Len(text[i]) > 0 /\ text[i][1] = "const unsigned char "
    IN  SubSeq(text, d + 1, Len(text) - 2)

\* the bytes of all lines of a text, in order
RECURSIVE BytesOfLines(_)
BytesOfLines(lines) ==
    IF lines = <<>> THEN <<>>
    ELSE IF Len(lines) = 1 THEN HexTokens(lines[1])
    ELSE LET m == Len(lines) \div 2
         IN  BytesOfLines(SubSeq(lines, 1, m)) \o BytesOfLines(SubSeq(lines, m + 1, Len(lines)))

\* data with every complete n-byte group reversed end-to-end
ReverseGroups(data, n) ==
    [k \in 1..Len(data) |->
        LET g == (k - 1) \div n
            j == (k - 1) % n
        IN  IF (g + 1) * n <= Len(data) THEN data[g * n + (n - 1 - j) + 1] ELSE data[k]]

PixelBytesOfFormat(f) ==
    CASE f = "color16bit" -> 2 [] f = "color24bit" -> 3 [] f = "color32bit" -> 4

\* the bytes the pipeline has emitted
EmittedBytes ==
    IF fop = "formatAsCArray" THEN BytesOfLines(ArrayBody(fout)) ELSE fout

\* the pixel bytes convert returns for an image under a config
ConvertedBytes(img, cfg) ==
    LET pre == applyPreprocessing(img, cfg).image
    IN  applyScanMode(convertToColorFormat(pre, cfg.colorFormat, cfg).data,
                      pre.width, pre.height, cfg.scanMode, cfg)

Emitted == pc = "done" /\ fop \in {"formatAsBinary", "formatAsCArray"}

\* C11: for a multi-byte pixel format the bytes the pipeline (convert, then
\* formatAsBinary or formatAsCArray, no header) emits with byteOrder 'lsb' are
\* the bytes it emits with byteOrder 'msb' with every pixel-sized group
\* reversed, and with 'msb' they are the converted bytes unchanged
C11_PipelineByteOrder ==
    (Emitted /\ config.colorFormat \in MultiByteFormats /\ ~config.includeHeader)
    => LET msb == ConvertedBytes(image, [config EXCEPT !.byteOrder = "msb"])
       IN  /\ config.byteOrder = "msb" => EmittedBytes = msb
           /\ config.byteOrder = "lsb" =>
                 EmittedBytes = ReverseGroups(msb, PixelBytesOfFormat(config.colorFormat))

(***************************************************************************)
(* DataFormatter: applyByteOrder, generatePALETTE and the text renderings  *)
(* on drawn arguments                                                      *)
(***************************************************************************)
MaxGroup == 3
MaxPerLine == 3

\* payloads of up to two groups of the largest group size
GroupPayloads ==
    { [k \in 1..n |-> (start + 83 * k) % 256] : n \in 0..(2 * MaxGroup), start \in {0, 200} }

\* payloads with one-digit and two-digit, decimal-only and lettered hex bytes
TextPayloads == Payloads \cup { <<0, 10, 15, 16>>, <<255>> }

ByteOrderConfigs == { [BaseConfig EXCEPT !.byteOrder = bo] : bo \in {"msb", "lsb"} }

TextConfigs ==
    { [BaseConfig EXCEPT !.bytesPerLine = n, !.colorFormat = f, !.includeHeader = ih,
                         !.includePalette = ip, !.customPalette = cp] :
        n \in 1..MaxPerLine, f \in {"mono", "color256", "rgb565"},
        ih \in BOOLEAN, ip \in BOOLEAN, cp \in {<<>>, << <<10, 20, 30>> >>} }

PaletteConfigs ==
    { [BaseConfig EXCEPT !.colorFormat = "color256", !.paletteType = pt,
                         !.customPalette = cp] :
        pt \in {"unset", "rgb332", "grayscale", "custom"}, cp \in CustomPalettes }

\* the (data, config, bytesPerPixel) arguments the methods are explored on
RenderInputs ==
    (GroupPayloads \X ByteOrderConfigs \X (1..MaxGroup))
    \cup (TextPayloads \X TextConfigs \X {1})
    \cup ({<<1, 2, 3>>} \X PaletteConfigs \X {1})

InitRender ==
    /\ \E inp \in RenderInputs :
          /\ payload = inp[1]
          /\ config = inp[2]
          /\ pixelBytes = inp[3]
          /\ metadata = <<ImageMetadata(inp[2], 256, 3, inp[1])>>
    /\ headerFile = <<>>
    /\ lineIndex = 0
    /\ hasConfig = TRUE
    /\ fop = "none"
    /\ fout = <<>>
    /\ ConvIdle
    /\ ProcIdle

ApplyByteOrder ==
    /\ fop = "none"
    /\ fout' = applyByteOrder(payload, config.byteOrder, pixelBytes)
    /\ fop' = "applyByteOrder"
    /\ UNCHANGED <<payload, metadata, hasConfig, pixelBytes, headerFile, lineIndex>>
    /\ UNCHANGED convVars
    /\ UNCHANGED procVars

FormatAsCArray ==
    /\ fop = "none"
    /\ fout' = formatAsCArray(payload, config, metadata[1])
    /\ fop' = "formatAsCArray"
    /\ UNCHANGED <<payload, metadata, hasConfig, pixelBytes, headerFile, lineIndex>>
    /\ UNCHANGED convVars
    /\ UNCHANGED procVars

FormatAsHexText ==
    /\ fop = "none"
    /\ fout' = formatAsHexText(payload, config.bytesPerLine)
    /\ fop' = "formatAsHexText"
    /\ UNCHANGED <<payload, metadata, hasConfig, pixelBytes, headerFile, lineIndex>>
    /\ UNCHANGED convVars
    /\ UNCHANGED procVars

GeneratePALETTE ==
    /\ fop = "none"
    /\ fout' = generatePALETTE(config)
    /\ fop' = "generatePALETTE"
    /\ UNCHANGED <<payload, metadata, hasConfig, pixelBytes, headerFile, lineIndex>>
    /\ UNCHANGED convVars
    /\ UNCHANGED procVars

NextRender ==
    \/ ApplyByteOrder
    \/ FormatAsCArray
    \/ FormatAsHexText
    \/ GeneratePALETTE

SpecRender == InitRender /\ [][NextRender]_vars

(***************************************************************************)
(* Properties of applyByteOrder, the text renderings and generatePALETTE   *)
(***************************************************************************)
\* C12: applyByteOrder(data, 'msb', n) is data; applyByteOrder(data, 'lsb', n)
\* has the length of data and result[k*n + j] = data[k*n + n-1-j] wherever
\* both positions exist; with n = 1 both orders return data
C12_ApplyByteOrder ==
    fop = "applyByteOrder"
    => /\ config.byteOrder = "msb" => fout = payload
       /\ pixelBytes = 1 => fout = payload
       /\ Len(fout) = Len(payload)
       /\ config.byteOrder = "lsb" =>
             \A k \in 0..Len(payload), j \in 0..(pixelBytes - 1) :
                 (k * pixelBytes + j < Len(payload)
                    /\ k * pixelBytes + (pixelBytes - 1 - j) < Len(payload))
                 => At(fout, k * pixelBytes + j)
                        = At(payload, k * pixelBytes + (pixelBytes - 1 - j))

\* two complete 3-byte groups were reversed and differ from the input
C12_Witness ==
    /\ fop = "applyByteOrder"
    /\ config.byteOrder = "lsb"
    /\ pixelBytes = 3
    /\ Len(payload) = 6
    /\ fout = <<payload[3], payload[2], payload[1], payload[6], payload[5], payload[4]>>
    /\ fout # payload

\* number of 0xHH tokens on each line of a text
TokensPerLine(lines) == [i \in 1..Len(lines) |-> Len(HexTokens(lines[i]))]

\* every line but the last holds n tokens, the last holds the remainder of
\* count tokens (n when count is a multiple of n)
LinesFilled(lines, count, n) ==
    /\ Len(lines) = (count + n - 1) \div n
    /\ \A i \in 1..Len(lines) :
          TokensPerLine(lines)[i] = IF i < Len(lines) THEN n ELSE ((count - 1) % n) + 1

\* the number written on the " * Size: N bytes" line of a C array text
RECURSIVE DecimalValue(_)
DecimalValue(digits) ==
    IF digits = <<>> THEN 0
    ELSE 10 * DecimalValue(SubSeq(digits, 1, Len(digits) - 1))
         + HexValue(digits[Len(digits)])

SizeComment(text) ==
    LET line == text[CHOOSE i \in 1..Len(text) :
                        Len(text[i]) > 0 /\ text[i][1] = " * Size: "]
    IN  DecimalValue(SubSeq(line, 2, Len(line) - 1))

\* C13: the 0xHH tokens of the array body of formatAsCArray are the bytes of
\* formatAsBinary for the same data, config and metadata, and the Size comment
\* is their count; the 0xHH tokens of formatAsHexText are the data; in both
\* texts every line but the last holds bytesPerLine tokens and the last the
\* remainder
C13_SameByteSequence ==
    /\ fop = "formatAsCArray" =>
          LET bin == formatAsBinary(payload, TRUE, config, metadata)
              body == ArrayBody(fout)
          IN  /\ BytesOfLines(body) = bin
              /\ SizeComment(fout) = Len(bin)
              /\ LinesFilled(body, Len(bin), config.bytesPerLine)
    /\ fop = "formatAsHexText" =>
          /\ BytesOfLines(fout) = payload
          /\ LinesFilled(fout, Len(payload), config.bytesPerLine)

\* a C array text with header and palette in front of four data bytes, two
\* bytes per line, the last line full
C13_Witness ==
    /\ fop = "formatAsCArray"
    /\ config.includeHeader /\ config.includePalette
    /\ config.colorFormat = "color256" /\ config.customPalette # <<>>
    /\ config.bytesPerLine = 2
    /\ payload = <<0, 10, 15, 16>>
    /\ SizeComment(fout) = 15
    /\ Len(ArrayBody(fout)) = 8

\* a hex text of four bytes, three per line: a full line and a remainder of one
C13_WitnessHexText ==
    /\ fop = "formatAsHexText"
    /\ config.bytesPerLine = 3
    /\ payload = <<0, 10, 15, 16>>
    /\ fout = << <<"0", "x", "0", "0", " ", "0", "x", "0", "A", " ", "0", "x", "0", "F">>,
                 <<"0", "x", "1", "0">> >>

\* C14: the table generatePALETTE returns starts with a 2-byte little-endian
\* entry count c <= 256 and is followed by exactly c RGB triples (length
\* 2 + 3*c), for the RGB332, grayscale and any caller-supplied palette
C14_PaletteTable ==
    fop = "generatePALETTE"
    => LET c == fout[1] + 256 * fout[2]
       IN  /\ c <= 256
           /\ Len(fout) = 2 + 3 * c

(***************************************************************************)
(* ImageProcessor: sequences of calls, each on the image the previous call *)
(* returned                                                                *)
(***************************************************************************)
BayerMatrix ==
    << <<0, 8, 2, 10>>,
       <<12, 4, 14, 6>>,
       <<3, 11, 1, 9>>,
       <<15, 7, 13, 5>> >>

\* grayscale > threshold with grayscale = sum / 3, threshold = bayer / 16 * 255
orderedDithering(img) ==
    [img EXCEPT !.data =
        [k \in 1..Len(img.data) |->
            LET p == (k - 1) \div 4
            IN  IF (k - 1) % 4 = 3 \/ p >= img.width * img.height
                THEN img.data[k]
                ELSE IF 16 * RgbSum(img.data, p)
                          > 3 * 255 * BayerMatrix[((p \div img.width) % 4) + 1]
                                                 [((p % img.width) % 4) + 1]
                     THEN 255 ELSE 0]]

applyDithering(img, algorithm) ==
    IF algorithm = "floyd-steinberg"
    THEN floydSteinbergDithering(img)
    ELSE orderedDithering(img)

MaxCalls == 2
MaxTurns == 4

\* limits of the resize calls: MaxLimit, or 1 for the width
ResizeLimits == { <<MaxLimit, MaxLimit>>, <<1, MaxLimit>> }

Rotations == {0, 90, 180, 270}

MirrorModes == {"none", "horizontal", "vertical", "both"}

BrightnessValues == {-60, 40}

ContrastValues == {50}

DitherAlgorithms == {"floyd-steinberg", "ordered"}

\* the image an ImageProcessor method returns
ProcessorCall(op, arg, img) ==
    CASE op = "resize"           -> resize(img, arg[1], arg[2])
      [] op = "rotate"           -> rotate(img, arg)
      [] op = "mirror"           -> mirror(img, arg)
      [] op = "adjustBrightness" -> adjustBrightness(img, arg)
      [] op = "adjustContrast"   -> adjustContrast(img, arg)
      [] op = "invert"           -> invert(img)
      [] op = "applyDithering"   -> applyDithering(img, arg)

\* dithering that works in image.data instead of a copy of it
GivenAfterInPlace(op, img, out) == IF op = "applyDithering" THEN out ELSE img

\* what the image passed to a method holds once the method has returned:
\* every method writes to a newly allocated newData only
GivenAfter(op, img, out) == img

\* the first entry of a trail: the source image, not yet passed to any method
Source(img) == [op |-> "source", arg |-> 0, given |-> img, image |-> img]

\* a further call may be made while fewer than limit calls were made
CanCall(limit) == trail # <<>> /\ Len(trail) <= limit

\* the trail after one more method call on the image the last call returned
\* (the source at first)
AfterCall(op, arg) ==
    LET given == trail[Len(trail)].image
        out   == ProcessorCall(op, arg, given)
    IN  Append([trail EXCEPT ![Len(trail)].image = GivenAfter(op, given, out)],
               [op |-> op, arg |-> arg, given |-> given, image |-> out])

Resize ==
    /\ CanCall(MaxCalls)
    /\ \E lim \in ResizeLimits : trail' = AfterCall("resize", lim)
    /\ UNCHANGED convVars
    /\ UNCHANGED fmtVars

Rotate ==
    /\ CanCall(MaxCalls)
    /\ \E degrees \in Rotations : trail' = AfterCall("rotate", degrees)
    /\ UNCHANGED convVars
    /\ UNCHANGED fmtVars

Mirror ==
    /\ CanCall(MaxCalls)
    /\ \E mode \in MirrorModes : trail' = AfterCall("mirror", mode)
    /\ UNCHANGED convVars
    /\ UNCHANGED fmtVars

AdjustBrightness ==
    /\ CanCall(MaxCalls)
    /\ \E value \in BrightnessValues : trail' = AfterCall("adjustBrightness", value)
    /\ UNCHANGED convVars
    /\ UNCHANGED fmtVars

AdjustContrast ==
    /\ CanCall(MaxCalls)
    /\ \E value \in ContrastValues : trail' = AfterCall("adjustContrast", value)
    /\ UNCHANGED convVars
    /\ UNCHANGED fmtVars

Invert ==
    /\ CanCall(MaxCalls)
    /\ trail' = AfterCall("invert", 0)
    /\ UNCHANGED convVars
    /\ UNCHANGED fmtVars

ApplyDithering ==
    /\ CanCall(MaxCalls)
    /\ \E algorithm \in DitherAlgorithms : trail' = AfterCall("applyDithering", algorithm)
    /\ UNCHANGED convVars
    /\ UNCHANGED fmtVars

\* source images of the call sequences: the largest size, a 1 x N, an N x 1
\* and a square image, each with opaque and with translucent pixels
ProcessorSizes == { <<MaxW, MaxH>>, <<1, MaxH>>, <<MaxW, 1>>, <<2, 2>> }

ProcessorImages ==
    { PatternImage(sz[1], sz[2], c, 1) : sz \in ProcessorSizes, c \in {1, 4} }
    \cup { PatternImage(sz[1], sz[2], 7, 2) : sz \in ProcessorSizes }

InitProcessor ==
    /\ \E img \in ProcessorImages : trail = <<Source(img)>>
    /\ config = BaseConfig
    /\ ConvIdle
    /\ FmtIdle

NextProcessor ==
    \/ Resize
    \/ Rotate
    \/ Mirror
    \/ AdjustBrightness
    \/ AdjustContrast
    \/ Invert
    \/ ApplyDithering

SpecProcessor == InitProcessor /\ [][NextProcessor]_vars

\* rotate calls alone, up to MaxTurns in a row
Turn ==
    /\ CanCall(MaxTurns)
    /\ \E degrees \in Rotations : trail' = AfterCall("rotate", degrees)
    /\ UNCHANGED convVars
    /\ UNCHANGED fmtVars

NextTurns == Turn

SpecTurns == InitProcessor /\ [][NextTurns]_vars

\* sources and limits in the ranges of the aspect ratio test (sources 50..500,
\* limits 100..400); the sources that are resized whole are the smallest ones
\* of the range that do not fit
AspectSizes == { <<101, 50>>, <<50, 101>>, <<50, 50>> }

AspectLimits == { <<100, 100>>, <<109, 100>>, <<100, 400>>, <<400, 101>> }

AspectImages == { PatternImage(sz[1], sz[2], 1, 1) : sz \in AspectSizes }

\* the (maxWidth, maxHeight) arguments a source is resized with
ResizeArguments(img) ==
    IF img \in AspectImages
    THEN AspectLimits
    ELSE ((1..MaxLimit) \X (1..MaxLimit)) \cup AspectLimits

InitResize ==
    /\ \E img \in Images \cup AspectImages : trail = <<Source(img)>>
    /\ config = BaseConfig
    /\ ConvIdle
    /\ FmtIdle

\* one resize call on the source
ResizeOnce ==
    /\ CanCall(1)
    /\ \E lim \in ResizeArguments(trail[1].given) : trail' = AfterCall("resize", lim)
    /\ UNCHANGED convVars
    /\ UNCHANGED fmtVars

NextResize == ResizeOnce

SpecResize == InitResize /\ [][NextResize]_vars

(***************************************************************************)
(* Properties of the ImageProcessor                                        *)
(***************************************************************************)
\* positions of the calls of a trail (position 1 is the source)
Calls == 2..Len(trail)

C16_InvertInvolution ==
    \A k \in Calls :
        trail[k].op = "invert"
        => /\ trail[k].image.width = trail[k].given.width
           /\ trail[k].image.height = trail[k].given.height
           /\ Len(trail[k].image.data) = Len(trail[k].given.data)
           /\ \A i \in 1..Len(trail[k].given.data) :
                 trail[k].image.data[i] =
                     IF (i - 1) % 4 = 3 THEN trail[k].given.data[i]
                                        ELSE 255 - trail[k].given.data[i]
           /\ (k >= 3 /\ trail[k - 1].op = "invert")
                 => trail[k].image = trail[k - 1].given

\* a two-pixel image with a translucent pixel was inverted twice
C16_Witness ==
    /\ Len(trail) = 3
    /\ trail[2].op = "invert" /\ trail[3].op = "invert"
    /\ Len(trail[1].given.data) = 8
    /\ \E i \in 1..8 : (i - 1) % 4 = 3 /\ trail[1].given.data[i] = 128
    /\ trail[2].image # trail[1].given
    /\ trail[3].image = trail[1].given

\* C18: mirror never changes width or height, mode 'none' returns the image
\* unchanged, and for horizontal, vertical and both mirror(mirror(img, mode),
\* mode) has exactly the samples of img
C18_MirrorInvolution ==
    \A k \in Calls :
        trail[k].op = "mirror"
        => /\ trail[k].image.width = trail[k].given.width
           /\ trail[k].image.height = trail[k].given.height
           /\ trail[k].arg = "none" => trail[k].image = trail[k].given
           /\ (k >= 3 /\ trail[k - 1].op = "mirror" /\ trail[k - 1].arg = trail[k].arg)
                 => trail[k].image = trail[k - 1].given

\* a 3 x 2 image was mirrored in both directions twice, the first mirror
\* having changed it
C18_Witness ==
    /\ Len(trail) = 3
    /\ trail[2].op = "mirror" /\ trail[3].op = "mirror"
    /\ trail[2].arg = "both" /\ trail[3].arg = "both"
    /\ trail[1].given.width = 3 /\ trail[1].given.height = 2
    /\ trail[2].image # trail[1].given
    /\ trail[3].image = trail[1].given

\* sum of the R, G, B samples of an image
RECURSIVE SumUpTo(_, _)
SumUpTo(data, n) ==
    IF n = 0 THEN 0
    ELSE SumUpTo(data, n - 1) + (IF (n - 1) % 4 = 3 THEN 0 ELSE data[n])

ChannelSum(img) == SumUpTo(img.data, Len(img.data))

\* C20: adjustBrightness(img, d) leaves each R, G, B sample at min(255, v + d)
\* for d > 0 and at max(0, v + d) for d < 0, alpha unchanged, so the mean
\* channel value never decreases for d > 0 and never increases for d < 0
C20_BrightnessMonotone ==
    \A k \in Calls :
        trail[k].op = "adjustBrightness"
        => LET d   == trail[k].arg
               in  == trail[k].given
               out == trail[k].image
           IN  /\ Len(out.data) = Len(in.data)
               /\ \A i \in 1..Len(in.data) :
                     IF (i - 1) % 4 = 3
                     THEN out.data[i] = in.data[i]
                     ELSE /\ d > 0 => out.data[i] = (IF in.data[i] + d > 255 THEN 255
                                                                             ELSE in.data[i] + d)
                          /\ d < 0 => out.data[i] = (IF in.data[i] + d < 0 THEN 0
                                                                           ELSE in.data[i] + d)
               /\ d > 0 => ChannelSum(out) >= ChannelSum(in)
               /\ d < 0 => ChannelSum(out) <= ChannelSum(in)

\* a brightness increase that clamped one sample at 255 and raised another
C20_Witness ==
    /\ Len(trail) = 2
    /\ trail[2].op = "adjustBrightness"
    /\ trail[2].arg > 0
    /\ \E i, j \in 1..Len(trail[2].given.data) :
          /\ (i - 1) % 4 # 3 /\ (j - 1) % 4 # 3
          /\ trail[2].given.data[i] + trail[2].arg > 255
          /\ trail[2].image.data[i] = 255
          /\ trail[2].image.data[j] = trail[2].given.data[j] + trail[2].arg

\* C17: each 90 or 270 degree rotation swaps width and height, every source
\* pixel lands on a distinct in-bounds destination pixel, and four successive
\* rotate(., 90) calls return the original width, height and samples, also for
\* non-square and 1 x N images
C17_RotationRoundTrip ==
    \A k \in Calls :
        trail[k].op = "rotate"
        => LET in == trail[k].given
               out == trail[k].image
               n == in.width * in.height
               dst(s) == RotateDst(in.width, in.height, trail[k].arg, s)
           IN  /\ trail[k].arg \in {90, 270}
                     => out.width = in.height /\ out.height = in.width
               /\ trail[k].arg \in {0, 180}
                     => out.width = in.width /\ out.height = in.height
               /\ \A s \in 0..(n - 1) : dst(s) \in 0..(n - 1)
               /\ \A s, t \in 0..(n - 1) : s # t => dst(s) # dst(t)
               /\ (k >= 5 /\ \A q \in (k - 3)..k : trail[q].op = "rotate" /\ trail[q].arg = 90)
                     => out = trail[k - 3].given

\* a 3 x 2 image was rotated by 90 degrees four times: the first turn gave a
\* 2 x 3 image and the fourth gave the source back
C17_Witness ==
    /\ Len(trail) = 5
    /\ \A q \in 2..5 : trail[q].op = "rotate" /\ trail[q].arg = 90
    /\ trail[1].given.width = 3 /\ trail[1].given.height = 2
    /\ trail[2].image.width = 2 /\ trail[2].image.height = 3
    /\ trail[3].image # trail[1].given
    /\ trail[5].image = trail[1].given

AbsDiff(a, b) == IF a >= b THEN a - b ELSE b - a

\* |w/h - w'/h'| / (w/h) <= 5%, for w, h, h' > 0
AspectWithinTolerance(w, h, newW, newH) ==
    /\ newH > 0
    /\ 100 * AbsDiff(w * newH, newW * h) <= 5 * w * newH

\* source dimensions of the range 50..500 at its ends, next to them and inside
AspectSideSamples == {50, 51, 53, 99, 100, 101, 250, 333, 499, 500}

\* C19: for limits >= 1 resize returns width <= maxWidth and height <=
\* maxHeight and returns the source unchanged when it already fits; for source
\* dimensions in 50..500 and limits in 100..400 the relative aspect ratio
\* difference |w/h - w'/h'| / (w/h) is at most 5%, both for the image that was
\* resized and for the dimensions resize computes for every sampled source
\* size under the limits of the call
C19_ResizeBounds ==
    \A k \in Calls :
        trail[k].op = "resize"
        => LET in  == trail[k].given
               out == trail[k].image
               maxWidth  == trail[k].arg[1]
               maxHeight == trail[k].arg[2]
           IN  /\ out.width <= maxWidth
               /\ out.height <= maxHeight
               /\ (in.width <= maxWidth /\ in.height <= maxHeight) => out = in
               /\ ({in.width, in.height} \subseteq 50..500
                     /\ {maxWidth, maxHeight} \subseteq 100..400)
                  => AspectWithinTolerance(in.width, in.height, out.width, out.height)
               /\ {maxWidth, maxHeight} \subseteq 100..400
                  => \A w \in AspectSideSamples, h \in AspectSideSamples :
                        (w > maxWidth \/ h > maxHeight)
                        => LET newW == ResizeWidth(w, h, maxWidth, maxHeight)
                               newH == ResizeHeight(w, h, maxWidth, maxHeight)
                           IN  /\ newW <= maxWidth
                               /\ newH <= maxHeight
                               /\ AspectWithinTolerance(w, h, newW, newH)

\* a 101 x 50 source resized into 100 x 100: the exact height 49.5 is rounded
\* to 50
C19_Witness ==
    /\ Len(trail) = 2
    /\ trail[2].op = "resize"
    /\ trail[2].given.width = 101 /\ trail[2].given.height = 50
    /\ trail[2].arg = <<100, 100>>
    /\ trail[2].image.width = 100 /\ trail[2].image.height = 50
    /\ Len(trail[2].image.data) = 100 * 50 * 4

(***************************************************************************)
(* Properties of the dithering                                             *)
(***************************************************************************)
\* the samples after the Floyd-Steinberg scan has visited pixels i .. stop - 1
RECURSIVE FloydSteinbergScan(_, _, _, _, _)
FloydSteinbergScan(data, width, height, i, stop) ==
    IF i >= stop THEN data
    ELSE FloydSteinbergScan(
            FloydSteinbergPixel(data, width, height, i % width, i \div width),
            width, height, i + 1, stop)

\* pixel p holds different R, G, B or A samples in a and b
PixelDiffers(a, b, p) == \E c \in 0..3 : At(a, p * 4 + c) # At(b, p * 4 + c)

\* (px, py) is the right, bottom-left, bottom or bottom-right neighbour of (x, y)
LaterNeighbour(x, y, px, py) ==
    \/ py = y /\ px = x + 1
    \/ py = y + 1 /\ px \in {x - 1, x, x + 1}

\* the pixels other than i that the visit of pixel i changes
DiffusedTo(data, width, height, i) ==
    LET before == FloydSteinbergScan(data, width, height, 0, i)
        after  == FloydSteinbergPixel(before, width, height, i % width, i \div width)
    IN  { p \in 0..(width * height - 1) : p # i /\ PixelDiffers(before, after, p) }

\* C21: every pixel applyDithering returns, for floyd-steinberg and for
\* ordered, has R = G = B in {0, 255} and the alpha it was given; the visit of
\* a pixel in the Floyd-Steinberg scan changes, besides that pixel, only its
\* right, bottom-left, bottom and bottom-right neighbours, all later in
\* raster order
C21_DitheredMonochrome ==
    \A k \in Calls :
        trail[k].op = "applyDithering"
        => LET given  == trail[k].given
               out    == trail[k].image
               width  == given.width
               height == given.height
           IN  /\ out.width = width /\ out.height = height
               /\ Len(out.data) = Len(given.data)
               /\ \A p \in 0..(width * height - 1) :
                     /\ At(out.data, p * 4) \in {0, 255}
                     /\ At(out.data, p * 4 + 1) = At(out.data, p * 4)
                     /\ At(out.data, p * 4 + 2) = At(out.data, p * 4)
                     /\ At(out.data, p * 4 + 3) = At(given.data, p * 4 + 3)
               /\ trail[k].arg = "floyd-steinberg"
                     => /\ out.data = FloydSteinbergScan(given.data, width, height,
                                                         0, width * height)
                        /\ \A i \in 0..(width * height - 1) :
                              \A p \in DiffusedTo(given.data, width, height, i) :
                                 /\ p > i
                                 /\ LaterNeighbour(i % width, i \div width,
                                                   p % width, p \div width)

\* a Floyd-Steinberg dithering of a 3 x 2 image with samples other than 0 and
\* 255, in which the visit of a pixel changed its bottom-left neighbour
C21_Witness ==
    /\ Len(trail) = 2
    /\ trail[2].op = "applyDithering" /\ trail[2].arg = "floyd-steinberg"
    /\ trail[2].given.width = 3 /\ trail[2].given.height = 2
    /\ \E j \in 1..Len(trail[2].given.data) : trail[2].given.data[j] \notin {0, 255}
    /\ \E i \in 0..2 : (i + 3 - 1) \in DiffusedTo(trail[2].given.data, 3, 2, i)
    /\ \A p \in 0..5 : At(trail[2].image.data, p * 4) \in {0, 255}

(***************************************************************************)
(* Properties of the scan transform                                        *)
(***************************************************************************)
\* convert has run applyScanMode
Scanned == pc \in {"scanned", "done"}

\* the reference reordering: destination pixel index of source pixel (x, y)
ReferenceDst(width, height, mode, x, y) ==
    CASE mode = "vertical" -> x * height + y
      [] mode = "horizontal-reverse-byte-vertical" -> (height - 1 - y) * width + x
      [] mode \in {"horizontal", "data-vertical-byte-horizontal"} -> y * width + x

ReferenceModes ==
    {"horizontal", "vertical", "horizontal-reverse-byte-vertical",
     "data-vertical-byte-horizontal"}

\* the payload is kept in horizontal order for these inputs
PackedPayload(cfg) ==
    \/ cfg.colorFormat \in {"mono", "gray4", "gray16"}
    \/ cfg.colorFormat = "color4096" /\ cfg.color4096Format = "12bits-3bytes"

\* C22: for the byte-aligned formats finalData holds the pixel-sized byte
\* group of source pixel (x, y) at the reference index (identity for
\* horizontal and data-vertical-byte-horizontal, x * height + y for vertical,
\* (height - 1 - y) * width + x for horizontal-reverse-byte-vertical), the
\* reference indices being a permutation of the pixels; for mono, gray4,
\* gray16 and color4096 in 12bits-3bytes layout finalData is convertedData
\* for every scan mode
C22_ScanReference ==
    Scanned =>
        LET width  == processed.width
            height == processed.height
            mode   == config.scanMode
        IN  /\ (config.colorFormat \in AlignedFormats /\ ~PackedPayload(config)
                    /\ mode \in ReferenceModes)
                => LET n == BytesOfAlignedFormat(config.colorFormat)
                       pixels == 0..(width * height - 1)
                       dst(s) == ReferenceDst(width, height, mode, s % width, s \div width)
                   IN  /\ Len(finalData) = Len(convertedData)
                       /\ Len(finalData) = width * height * n
                       /\ \A s \in pixels :
                             /\ dst(s) \in pixels
                             /\ \A t \in pixels : dst(t) = dst(s) => t = s
                             /\ \A b \in 0..(n - 1) :
                                   At(finalData, dst(s) * n + b)
                                       = At(convertedData, s * n + b)
            /\ PackedPayload(config) => finalData = convertedData

\* a 3 x 2 color16bit payload whose pixel groups a vertical scan moved
C22_Witness ==
    /\ pc = "scanned"
    /\ config.colorFormat = "color16bit" /\ config.scanMode = "vertical"
    /\ processed.width = 3 /\ processed.height = 2
    /\ finalData # convertedData
    /\ At(finalData, 2) = At(convertedData, 6) /\ At(finalData, 3) = At(convertedData, 7)
    /\ At(finalData, 2) # At(convertedData, 2)

(***************************************************************************)
(* Properties of the 24-bit and 32-bit codecs                              *)
(***************************************************************************)
\* the letters of an rgbOrder value, an unset one read as RGB
OrderLetters(rgbOrder) ==
    CASE rgbOrder = "RGB" -> <<"R", "G", "B">>
      [] rgbOrder = "RBG" -> <<"R", "B", "G">>
      [] rgbOrder = "GRB" -> <<"G", "R", "B">>
      [] rgbOrder = "GBR" -> <<"G", "B", "R">>
      [] rgbOrder = "BRG" -> <<"B", "R", "G">>
      [] rgbOrder = "BGR" -> <<"B", "G", "R">>
      [] rgbOrder = "unset" -> <<"R", "G", "B">>

\* the sample of source pixel i that a letter names
ComponentOf(data, i, letter) ==
    CASE letter = "R" -> At(data, i * 4)
      [] letter = "G" -> At(data, i * 4 + 1)
      [] letter = "B" -> At(data, i * 4 + 2)

\* C23: for color24bit, rgb888 and color32bit and each of the six rgbOrder
\* values, byte k = 0, 1, 2 of every output pixel is the source component
\* named by the k-th letter of rgbOrder, unchanged; the fourth byte of a
\* color32bit pixel is the source alpha; an unset rgbOrder behaves as RGB
C23_RgbOrder ==
    (Converted /\ config.colorFormat \in {"color24bit", "rgb888", "color32bit"}
        /\ config.rgbOrder \in RgbOrders \cup {"unset"})
    => LET n == IF config.colorFormat = "color32bit" THEN 4 ELSE 3
           letters == OrderLetters(config.rgbOrder)
       IN  /\ Len(convertedData) = processed.width * processed.height * n
           /\ \A i \in 0..(processed.width * processed.height - 1) :
                 /\ \A k \in 0..2 :
                       At(convertedData, i * n + k)
                           = ComponentOf(processed.data, i, letters[k + 1])
                 /\ n = 4 => At(convertedData, i * 4 + 3) = At(processed.data, i * 4 + 3)

\* a color32bit conversion in BRG order of an image whose first pixel is
\* (200, 100, 50, 128)
C23_Witness ==
    /\ pc = "converted"
    /\ config.colorFormat = "color32bit" /\ config.rgbOrder = "BRG"
    /\ Len(processed.data) >= 8
    /\ SubSeq(processed.data, 1, 4) = <<200, 100, 50, 128>>
    /\ SubSeq(convertedData, 1, 4) = <<50, 200, 100, 128>>

(***************************************************************************)
(* Properties of the color4096 codec                                       *)
(***************************************************************************)
\* v_i = (R >> 4) << 8 | (G >> 4) << 4 | (B >> 4), 0 past the last pixel
TwelveBitValue(data, total, i) ==
    IF i >= total THEN 0
    ELSE (At(data, i * 4) \div 16) * 256 + (At(data, i * 4 + 1) \div 16) * 16
         + (At(data, i * 4 + 2) \div 16)

\* bit j of v_0, v_1, ... concatenated, the most significant bit of each first
StreamBit(data, total, j) ==
    (TwelveBitValue(data, total, j \div 12) \div (2 ^ (11 - (j % 12)))) % 2

\* byte k of that bit stream
StreamByte(data, total, k) ==
    LET bit(b) == StreamBit(data, total, 8 * k + b)
    IN  128 * bit(0) + 64 * bit(1) + 32 * bit(2) + 16 * bit(3)
        + 8 * bit(4) + 4 * bit(5) + 2 * bit(6) + bit(7)

\* C24: for color4096 the 16bits-word layout, also taken when
\* color4096Format is unset, stores each v_i as two bytes, high byte first,
\* the top nibble 0; the 12bits-3bytes layout returns ceil(w * h * 3 / 2)
\* bytes that are the 12-bit values concatenated MSB-first, four zero bits
\* after an odd pixel count, and the loop assigns no index outside the result
C24_Color4096Layouts ==
    (Converted /\ config.colorFormat = "color4096")
    => LET total == processed.width * processed.height
           data  == processed.data
       IN  IF config.color4096Format = "12bits-3bytes"
           THEN /\ Len(convertedData) = CeilDiv(total * 3, 2)
                /\ \A k \in 0..(Len(convertedData) - 1) :
                      At(convertedData, k) = StreamByte(data, total, k)
                /\ total % 2 = 1 => At(convertedData, Len(convertedData) - 1) % 16 = 0
                /\ Color4096WriteIndices(total) \subseteq 0..(Len(convertedData) - 1)
           ELSE /\ config.color4096Format \in {"16bits-word", "unset"}
                /\ Len(convertedData) = total * 2
                /\ \A i \in 0..(total - 1) :
                      /\ At(convertedData, 2 * i)
                            = TwelveBitValue(data, total, i) \div 256
                      /\ At(convertedData, 2 * i + 1)
                            = TwelveBitValue(data, total, i) % 256
                      /\ At(convertedData, 2 * i) < 16

\* three pixels packed into five bytes, the last pixel white: FF F0 at the end
C24_Witness ==
    /\ pc = "converted"
    /\ config.colorFormat = "color4096" /\ config.color4096Format = "12bits-3bytes"
    /\ processed.width * processed.height = 3
    /\ Len(convertedData) = 5
    /\ At(convertedData, 3) = 255 /\ At(convertedData, 4) = 240
    /\ At(convertedData, 1) % 16 # 0

(***************************************************************************)
(* ImageConverter: several convert calls on one instance                   *)
(***************************************************************************)
MaxConverts == 2

\* configs that differ in the format, the scan mode and the sub-options
CallConfigs ==
    { [BaseConfig EXCEPT !.colorFormat = "color4096", !.scanMode = "vertical",
                         !.color4096Format = "12bits-3bytes"],
      [BaseConfig EXCEPT !.colorFormat = "color4096", !.color4096Format = "16bits-word"],
      [BaseConfig EXCEPT !.colorFormat = "color16bit", !.color16bitFormat = "rgb555"],
      [BaseConfig EXCEPT !.colorFormat = "color16bit", !.scanMode = "vertical"],
      [BaseConfig EXCEPT !.colorFormat = "color18bit", !.color18bitFormat = "6bits-high-byte"],
      [BaseConfig EXCEPT !.colorFormat = "color18bit"],
      [BaseConfig EXCEPT !.colorFormat = "color24bit", !.rgbOrder = "BGR"],
      [BaseConfig EXCEPT !.colorFormat = "color32bit", !.scanMode = "vertical"],
      [BaseConfig EXCEPT !.colorFormat = "bogus"],
      [BaseConfig EXCEPT !.colorFormat = "mono", !.rotation = 90] }

CallImages == { PatternImage(2, 2, 7, 1), PatternImage(MaxW, 1, 3, 1) }

CallInputs == CallImages \X CallConfigs

InitCalls ==
    /\ \E inp \in CallInputs :
          /\ image = inp[1]
          /\ config = inp[2]
    /\ pc = "start"
    /\ currentConfig = <<>>
    /\ processed = NoImage
    /\ steps = <<>>
    /\ convertedData = <<>>
    /\ finalData = <<>>
    /\ result = <<>>
    /\ error = "none"
    /\ earlier = <<>>
    /\ FmtIdle
    /\ ProcIdle

\* the caller, convert having returned or thrown, calls convert again on the
\* same instance: the locals are new, the field currentConfig is kept
ConvertAgain ==
    /\ pc \in {"done", "thrown"}
    /\ Len(earlier) + 1 < MaxConverts
    /\ earlier' = Append(earlier, [image |-> image, config |-> config,
                                   error |-> error, result |-> result])
    /\ \E inp \in CallInputs :
          /\ image' = inp[1]
          /\ config' = inp[2]
    /\ pc' = "start"
    /\ processed' = NoImage
    /\ steps' = <<>>
    /\ convertedData' = <<>>
    /\ finalData' = <<>>
    /\ result' = <<>>
    /\ error' = "none"
    /\ UNCHANGED currentConfig
    /\ UNCHANGED fmtVars
    /\ UNCHANGED procVars

NextCalls ==
    \/ Preprocess
    \/ ConvertFormat
    \/ Scan
    \/ Return
    \/ ConvertAgain

SpecCalls == InitCalls /\ [][NextCalls]_vars

\* what convert(img, cfg) does on an instance whose currentConfig was never
\* written: the error it throws and the result it returns
FreshConvert(img, cfg) ==
    LET st == applyPreprocessing(img, cfg)
        r  == convertToColorFormat(st.image, cfg.colorFormat,
                                   getCurrentConfig(<<cfg>>))
    IN  IF r.thrown
        THEN [error |-> "Unsupported color format", result |-> <<>>]
        ELSE [error |-> "none",
              result |-> <<ConversionResult(
                              applyScanMode(r.data, st.image.width, st.image.height,
                                            cfg.scanMode, getCurrentConfig(<<cfg>>)),
                              st.image, cfg)>>]

\* C25: in every sequence of convert calls on one instance, failed calls
\* included, each call throws or returns exactly what a fresh instance throws
\* or returns for the same image and config
C25_CallsIndependent ==
    /\ \A k \in 1..Len(earlier) :
          /\ earlier[k].error = FreshConvert(earlier[k].image, earlier[k].config).error
          /\ earlier[k].result = FreshConvert(earlier[k].image, earlier[k].config).result
    /\ pc \in {"done", "thrown"}
          => /\ error = FreshConvert(image, config).error
             /\ result = FreshConvert(image, config).result

\* a color4096 call in 16bits-word layout returned after a call in
\* 12bits-3bytes layout and vertical scan on the same instance
C25_Witness ==
    /\ Len(earlier) = 1
    /\ earlier[1].config.colorFormat = "color4096"
    /\ earlier[1].config.color4096Format = "12bits-3bytes"
    /\ earlier[1].result # <<>>
    /\ pc = "done"
    /\ config.colorFormat = "color4096" /\ config.color4096Format = "16bits-word"
    /\ image = earlier[1].image
    /\ result[1].data # earlier[1].result[1].data

(***************************************************************************)
(* Properties of the header's format-variant flag                          *)
(***************************************************************************)
\* the two-byte words of the image, high byte first, with g green bits:
\* RGB565 for g = 6, RGB555 for g = 5
WordPayload(img, g) ==
    [k \in 1..(img.width * img.height * 2) |->
        LET i == (k - 1) \div 2
            word == (At(img.data, i * 4) \div 8) * (2 ^ (5 + g))
                    + (At(img.data, i * 4 + 1) \div (2 ^ (8 - g))) * 32
                    + (At(img.data, i * 4 + 2) \div 8)
        IN  IF (k - 1) % 2 = 0 THEN word \div 256 ELSE word % 256]

\* the 6-bit components of the image, one per byte, shifted left by shift bits
SixBitPayload(img, shift) ==
    [k \in 1..(img.width * img.height * 3) |->
        (At(img.data, ((k - 1) \div 3) * 4 + ((k - 1) % 3)) \div 4) * (2 ^ shift)]

\* the 12-bit values of the image, packed two pixels per three bytes
PackedPayload12(img) ==
    [k \in 1..CeilDiv(img.width * img.height * 3, 2) |->
        StreamByte(img.data, img.width * img.height, k - 1)]

\* the 12-bit values of the image, one per two-byte word
WordPayload12(img) ==
    [k \in 1..(img.width * img.height * 2) |->
        LET v == TwelveBitValue(img.data, img.width * img.height, (k - 1) \div 2)
        IN  IF (k - 1) % 2 = 0 THEN v \div 256 ELSE v % 256]

\* the payload a set flag announces for a format, and the one a clear flag
\* announces
FlaggedPayload(f, img) ==
    CASE f = "color4096" -> PackedPayload12(img)
      [] f \in {"color16bit", "rgb565"} -> WordPayload(img, 6)
      [] f = "color18bit" -> SixBitPayload(img, 2)

UnflaggedPayload(f, img) ==
    CASE f = "color4096" -> WordPayload12(img)
      [] f \in {"color16bit", "rgb565"} -> WordPayload(img, 5)
      [] f = "color18bit" -> SixBitPayload(img, 0)

\* the pipeline emitted a C array that starts with a HEADCOLOR header
ColorHeaderEmitted ==
    /\ pc = "done" /\ fop = "formatAsCArray"
    /\ config.includeHeader
    /\ ~IsGrayFormat(config.colorFormat)

\* C26: byte 6 of the HEADCOLOR header emitted with a payload describes the
\* encoding of that payload: for color16bit and rgb565 it is 1 exactly when
\* the words are RGB565 (also when color16bitFormat is unset), for color4096
\* exactly when the payload is packed in 12bits-3bytes layout, for color18bit
\* exactly when the components sit in the high bits; it is 0 for color24bit
\* and color32bit
C26_VariantFlag ==
    ColorHeaderEmitted =>
        LET f    == config.colorFormat
            flag == EmittedBytes[7]
        IN  /\ f \in {"color24bit", "rgb888", "color32bit"} => flag = 0
            /\ (f \in {"color4096", "color16bit", "rgb565", "color18bit"}
                   /\ FlaggedPayload(f, processed) # UnflaggedPayload(f, processed))
               => /\ convertedData \in {FlaggedPayload(f, processed),
                                        UnflaggedPayload(f, processed)}
                  /\ flag = 1 <=> convertedData = FlaggedPayload(f, processed)

(***************************************************************************)
(* Properties of the size limits                                           *)
(***************************************************************************)
\* C27: whenever maxWidth and maxHeight are set, the ConversionResult convert
\* returns has width <= maxWidth and height <= maxHeight, for every rotation
\* and every mirror value
C27_ResultWithinLimits ==
    (Returned /\ config.maxWidth # 0 /\ config.maxHeight # 0)
    => /\ result[1].width <= config.maxWidth
       /\ result[1].height <= config.maxHeight
       /\ result[1].metadata.width <= config.maxWidth
       /\ result[1].metadata.height <= config.maxHeight

(***************************************************************************)
(* Properties of the header file                                           *)
(***************************************************************************)
\* the number a line of the header file declares after the given fragments
DeclaredAfter(text, fragments) ==
    LET n == Len(fragments)
        line == text[CHOOSE i \in 1..Len(text) :
                        Len(text[i]) > n /\ SubSeq(text[i], 1, n) = fragments]
    IN  DecimalValue(SelectSeq(SubSeq(line, n + 1, Len(line)), IsUpperHex))

\* C28: the size generateHeaderFile declares for the array, in the
\* <IDENTIFIER>_SIZE macro and in its Size comment, is the number of bytes of
\* the array formatAsCArray emitted for the same result and config, also
\* when includeHeader or includePalette put header and palette bytes in
\* front of the payload
C28_DeclaredSize ==
    headerFile # <<>>
    => /\ DeclaredAfter(headerFile, <<"#define ", "IMAGE_DATA", "_SIZE ">>)
             = Len(BytesOfLines(ArrayBody(fout)))
       /\ DeclaredAfter(headerFile, <<" * Size: ">>)
             = Len(BytesOfLines(ArrayBody(fout)))

(***************************************************************************)
(* Properties of applyByteOrder on sequences of any length                 *)
(***************************************************************************)
\* how many times byte v occurs in a sequence
Occurrences(seq, v) == Cardinality({ k \in 1..Len(seq) : seq[k] = v })

\* C29: for every byte sequence, also one whose length is not a multiple of
\* n, and every n >= 1, applyByteOrder(data, 'lsb', n) has the length of data
\* and the same bytes with the same multiplicities, and applied twice it
\* returns data
C29_ByteOrderKeepsBytes ==
    (fop = "applyByteOrder" /\ config.byteOrder = "lsb")
    => /\ Len(fout) = Len(payload)
       /\ \A v \in 0..255 : Occurrences(fout, v) = Occurrences(payload, v)
       /\ applyByteOrder(fout, "lsb", pixelBytes) = payload

(***************************************************************************)
(* DataFormatter: the line loops of formatAsHexText and formatAsCArray,    *)
(* one iteration per step                                                  *)
(***************************************************************************)
\* TypedArray.prototype.slice(begin, end): a negative index counts from the
\* end, indices are clamped to 0..length, an empty range gives an empty array
RelativeIndex(len, k) ==
    IF k < 0 THEN (IF len + k < 0 THEN 0 ELSE len + k)
    ELSE (IF k > len THEN len ELSE k)

slice(data, begin, end) ==
    LET from == RelativeIndex(Len(data), begin)
        to   == RelativeIndex(Len(data), end)
    IN  IF to > from THEN SubSeq(data, from + 1, to) ELSE <<>>

\* data.slice(i, Math.min(i + bytesPerLine, data.length))
LineChunk(data, i, bytesPerLine) ==
    slice(data, i, IF i + bytesPerLine < Len(data) THEN i + bytesPerLine ELSE Len(data))

\* line widths: negative, zero, and one to MaxPerLine bytes
LineWidths == {-1, 0} \cup (1..MaxPerLine)

LineConfigs ==
    { [BaseConfig EXCEPT !.bytesPerLine = n, !.colorFormat = "rgb565",
                         !.includeHeader = ih] :
        n \in LineWidths, ih \in BOOLEAN }

LineInputs == Payloads \X LineConfigs

InitLines ==
    /\ \E inp \in LineInputs :
          /\ payload = inp[1]
          /\ config = inp[2]
          /\ metadata = <<ImageMetadata(inp[2], 256, 3, inp[1])>>
    /\ hasConfig = TRUE
    /\ fop = "none"
    /\ fout = <<>>
    /\ pixelBytes = 1
    /\ headerFile = <<>>
    /\ lineIndex = 0
    /\ ConvIdle
    /\ ProcIdle

\* fullData of the formatAsCArray call in progress
LoopFullData == CArrayFullData(payload, config, metadata[1])

\* iterations the loop in progress has made
Iterations ==
    IF fop = "formatAsCArray:loop"
    THEN Len(fout) - Len(CArrayPreamble(LoopFullData, config, metadata[1]))
    ELSE Len(fout)

\* formatAsHexText: const lines = []; i = 0
BeginHexText ==
    /\ fop = "none"
    /\ fop' = "formatAsHexText:loop"
    /\ fout' = <<>>
    /\ lineIndex' = 0
    /\ UNCHANGED <<payload, metadata, hasConfig, pixelBytes, headerFile>>
    /\ UNCHANGED convVars
    /\ UNCHANGED procVars

\* one iteration of formatAsHexText's loop; a loop is followed for at most
\* data.length + 1 iterations
HexTextLine ==
    /\ fop = "formatAsHexText:loop"
    /\ lineIndex < Len(payload)
    /\ Iterations <= Len(payload)
    /\ LET chunk == LineChunk(payload, lineIndex, config.bytesPerLine)
       IN  fout' = Append(fout, Join([t \in 1..Len(chunk) |-> HexToken(chunk[t])],
                                     <<" ">>))
    /\ lineIndex' = lineIndex + config.bytesPerLine
    /\ UNCHANGED <<payload, metadata, hasConfig, fop, pixelBytes, headerFile>>
    /\ UNCHANGED convVars
    /\ UNCHANGED procVars

\* formatAsHexText: the loop condition fails, return lines.join
HexTextReturn ==
    /\ fop = "formatAsHexText:loop"
    /\ ~(lineIndex < Len(payload))
    /\ fop' = "formatAsHexText"
    /\ UNCHANGED <<payload, metadata, hasConfig, fout, pixelBytes, headerFile, lineIndex>>
    /\ UNCHANGED convVars
    /\ UNCHANGED procVars

\* formatAsCArray up to its loop: fullData, comment, declaration; i = 0
BeginCArray ==
    /\ fop = "none"
    /\ fop' = "formatAsCArray:loop"
    /\ fout' = CArrayPreamble(LoopFullData, config, metadata[1])
    /\ lineIndex' = 0
    /\ UNCHANGED <<payload, metadata, hasConfig, pixelBytes, headerFile>>
    /\ UNCHANGED convVars
    /\ UNCHANGED procVars

\* one iteration of formatAsCArray's loop; a loop is followed for at most
\* fullData.length + 1 iterations
CArrayLine ==
    /\ fop = "formatAsCArray:loop"
    /\ lineIndex < Len(LoopFullData)
    /\ Iterations <= Len(LoopFullData)
    /\ LET chunk == LineChunk(LoopFullData, lineIndex, config.bytesPerLine)
           line  == <<"  ">>
                    \o Join([t \in 1..Len(chunk) |-> HexToken(chunk[t])], <<",", " ">>)
       IN  fout' = Append(fout,
                          IF lineIndex + config.bytesPerLine < Len(LoopFullData)
                          THEN line \o <<",">>
                          ELSE line)
    /\ lineIndex' = lineIndex + config.bytesPerLine
    /\ UNCHANGED <<payload, metadata, hasConfig, fop, pixelBytes, headerFile>>
    /\ UNCHANGED convVars
    /\ UNCHANGED procVars

\* formatAsCArray: the loop condition fails, push the closing lines, return
CArrayReturn ==
    /\ fop = "formatAsCArray:loop"
    /\ ~(lineIndex < Len(LoopFullData))
    /\ fout' = fout \o << <<"};">>, <<>> >>
    /\ fop' = "formatAsCArray"
    /\ UNCHANGED <<payload, metadata, hasConfig, pixelBytes, headerFile, lineIndex>>
    /\ UNCHANGED convVars
    /\ UNCHANGED procVars

NextLines ==
    \/ BeginHexText
    \/ HexTextLine
    \/ HexTextReturn
    \/ BeginCArray
    \/ CArrayLine
    \/ CArrayReturn

SpecLines == InitLines /\ [][NextLines]_vars

\* C30: formatAsHexText and formatAsCArray terminate for every byte sequence
\* and every integer bytesPerLine, 0 and negative values included, and list
\* every input byte exactly once: every iteration of the line loop moves i
\* forward (the loop runs while i < length and adds the same bytesPerLine to
\* i each time, so it ends exactly when it does), and the 0xHH tokens of the
\* returned text are the bytes of the input, in order
C30_LineLoopsTerminate ==
    /\ [][(HexTextLine \/ CArrayLine) => lineIndex' > lineIndex]_vars
    /\ [](fop = "formatAsHexText" => BytesOfLines(fout) = payload)
    /\ [](fop = "formatAsCArray" => BytesOfLines(ArrayBody(fout)) = LoopFullData)

====
